---- MODULE Spec2Model ----
(***************************************************************************)
(* Model of the duplicate-thumbnail highlighter content script             *)
(* (src/duplicate-thumbnail-highlighter/content.js): the duplicate tracker *)
(* (processedSrcUrls, hashToSrcUrls, failedUrls), its eviction, and the    *)
(* throttled hash queue of the ThumbHash module.                           *)
(*                                                                         *)
(* JavaScript runs every handler (an observer callback, a timer, a message *)
(* answer together with the promise reactions it releases) to completion,  *)
(* so each handler is one action.  A Map or Set keeps insertion order and  *)
(* is modelled as a sequence; a hash is a sequence of one-character        *)
(* strings; null is the empty sequence (the code only tests it with "!").  *)
(***************************************************************************)
EXTENDS Integers, Sequences, FiniteSets, TLC

\* ---------------------------------------------------------------- bounds

\* Number of queueHash calls in one behaviour.
MaxRequests == 3

\* Source URLs: opaque keys, as many as there can be requests.
Urls == 1..MaxRequests

\* Longest hex string given to hammingDistance and findMatchingHash.
MaxHashLen == 2

\* Longest bit string given to binToHex.
MaxBits == 8

\* Largest pixel grid given to the dHash loops.
MaxGrid == 3

\* How often one call is repeated on the same inputs.
MaxCalls == 2

\* FETCH_IMAGE_BLOB messages sent to the background script.
MaxMessages == 2

\* Images of one processPage batch, and the sources they show.
MaxBatch == 2

\* Images that enter the viewport in one burst of scrolling.
MaxBurst == 5

\* Runs of processPage.
MaxRuns == 2

\* ------------------------------------------------------- program constants

HAMMING_THRESHOLD == 5

\* content.js sets 5000 and 1000; the model scales both capacities down.
MAX_CACHE_ENTRIES == 1

MAX_FAILED_ENTRIES == 1

\* The value hammingDistance returns for incomparable hashes.
Infinity == 1000000

NULL == <<>>

\* Hashes computeHashInternal can return for a decoded image.  "01" is within
\* HAMMING_THRESHOLD of "0f" (3 bits) and of "f0" (5 bits), which are 8 bits
\* apart; "00" is the hash of a solid-colour image.
ImageHashes == { <<"0", "1">>, <<"0", "f">>, <<"f", "0">>, <<"0", "0">> }

\* ------------------------------------------------------------ JS helpers

\* The elements of a sequence.
Members(s) == { s[i] : i \in 1..Len(s) }

HexDigits == <<"0", "1", "2", "3", "4", "5", "6", "7",
               "8", "9", "a", "b", "c", "d", "e", "f">>

\* parseInt(c, 16) for one character; NaN (here -1) for a non-hex character.
parseInt16(c) ==
    IF \E i \in 1..16 : HexDigits[i] = c
    THEN (CHOOSE i \in 1..16 : HexDigits[i] = c) - 1
    ELSE -1

\* a ^ b on 4-bit operands; NaN operands count as 0 under ToInt32.
BitXor(a, b) ==
    LET x == IF a < 0 THEN 0 ELSE a
        y == IF b < 0 THEN 0 ELSE b
        bit(v, i) == (v \div (2 ^ i)) % 2
    IN  ((bit(x, 0) + bit(y, 0)) % 2)
      + ((bit(x, 1) + bit(y, 1)) % 2) * 2
      + ((bit(x, 2) + bit(y, 2)) % 2) * 4
      + ((bit(x, 3) + bit(y, 3)) % 2) * 8

\* Mutant of CountBits: the mask is taken for three bits wide.
CountBitsLow3(mask) ==
    (mask % 2) + ((mask \div 2) % 2) + ((mask \div 4) % 2)

\* while (mask) { distance += mask & 1; mask >>= 1; }
RECURSIVE CountBits(_)
CountBits(mask) ==
    IF mask = 0 THEN 0 ELSE (mask % 2) + CountBits(mask \div 2)

\* The bits one pair of characters adds to the distance, tabulated.
DigitDistance ==
    [c1 \in Members(HexDigits), c2 \in Members(HexDigits) |->
        CountBits(BitXor(parseInt16(c1), parseInt16(c2)))]

\* Mutant of HammingFrom: every character of h1 is compared with the first
\* character of h2.
RECURSIVE HammingFromFirst(_, _, _)
HammingFromFirst(h1, h2, i) ==
    IF i > Len(h1) THEN 0
    ELSE DigitDistance[h1[i], h2[1]] + HammingFromFirst(h1, h2, i + 1)

\* The for loop of hammingDistance from index i on.
RECURSIVE HammingFrom(_, _, _)
HammingFrom(h1, h2, i) ==
    IF i > Len(h1) THEN 0
    ELSE DigitDistance[h1[i], h2[i]] + HammingFrom(h1, h2, i + 1)

\* Mutant of hammingDistance: no test of the lengths, the characters are
\* compared as far as both strings go.
hammingDistanceNoLengthTest(h1, h2) ==
    IF h1 = NULL \/ h2 = NULL THEN Infinity
    ELSE LET n == IF Len(h1) < Len(h2) THEN Len(h1) ELSE Len(h2)
         IN  HammingFrom(SubSeq(h1, 1, n), SubSeq(h2, 1, n), 1)

hammingDistance(h1, h2) ==
    IF h1 = NULL \/ h2 = NULL \/ Len(h1) # Len(h2) THEN Infinity
    ELSE HammingFrom(h1, h2, 1)

isSolidColor(hash) ==
    IF hash = NULL THEN FALSE
    ELSE \/ \A i \in 1..Len(hash) : hash[i] = "0"
         \/ \A i \in 1..Len(hash) : hash[i] = "f"

\* ---- Map (src -> hash) as a sequence of [src, hash] in insertion order

SrcHas(m, src) == \E i \in 1..Len(m) : m[i].src = src

SrcGet(m, src) == m[CHOOSE i \in 1..Len(m) : m[i].src = src].hash

\* Map.prototype.set: a new key goes last, an existing key keeps its place.
SrcSet(m, src, hash) ==
    IF SrcHas(m, src)
    THEN [m EXCEPT ![CHOOSE i \in 1..Len(m) : m[i].src = src].hash = hash]
    ELSE Append(m, [src |-> src, hash |-> hash])

\* ---- Map (hash -> Set of src) as a sequence of [hash, srcs]

HashHas(g, hash) == \E i \in 1..Len(g) : g[i].hash = hash

HashGet(g, hash) == g[CHOOSE i \in 1..Len(g) : g[i].hash = hash].srcs

\* Mutant of HashAdd: the member set is replaced by a set of the new source.
HashAddReplace(g, hash, src) ==
    IF HashHas(g, hash)
    THEN [g EXCEPT ![CHOOSE i \in 1..Len(g) : g[i].hash = hash].srcs = {src}]
    ELSE Append(g, [hash |-> hash, srcs |-> {src}])

\* hashToSrcUrls.get(hash).add(src), after set(hash, new Set()) when absent
HashAdd(g, hash, src) ==
    IF HashHas(g, hash)
    THEN [g EXCEPT ![CHOOSE i \in 1..Len(g) : g[i].hash = hash].srcs
                        = @ \cup {src}]
    ELSE Append(g, [hash |-> hash, srcs |-> {src}])

RECURSIVE SeqWithout(_, _)
SeqWithout(s, i) ==
    IF s = <<>> THEN <<>>
    ELSE IF i = 1 THEN Tail(s)
    ELSE <<Head(s)>> \o SeqWithout(Tail(s), i - 1)

\* Mutant of HashRemove: the group is deleted with its first evicted member.
HashRemoveWholeGroup(g, hash, src) ==
    IF ~HashHas(g, hash) THEN g
    ELSE SeqWithout(g, CHOOSE j \in 1..Len(g) : g[j].hash = hash)

\* Mutant of HashRemove: the emptied group is left in the map.
HashRemoveKeepEmpty(g, hash, src) ==
    IF ~HashHas(g, hash) THEN g
    ELSE [g EXCEPT ![CHOOSE i \in 1..Len(g) : g[i].hash = hash].srcs
                        = @ \ {src}]

\* srcSet.delete(src); if (srcSet.size === 0) hashToSrcUrls.delete(hash)
HashRemove(g, hash, src) ==
    IF ~HashHas(g, hash) THEN g
    ELSE LET i == CHOOSE j \in 1..Len(g) : g[j].hash = hash
             srcSet == g[i].srcs \ {src}
         IN  IF srcSet = {} THEN SeqWithout(g, i)
             ELSE [g EXCEPT ![i] = [hash |-> hash, srcs |-> srcSet]]

\* ---- Set of src as a sequence in insertion order

SetAdd(s, x) == IF x \in Members(s) THEN s ELSE Append(s, x)

\* --------------------------------------------------------- hash matching

\* Mutant of FirstWithin: the distance is not tested.
FirstKeyAny(newHash, hashMap, i) ==
    IF i > Len(hashMap) THEN NULL ELSE hashMap[i].hash

\* Mutant of FirstWithin: the distance must be below the threshold.
RECURSIVE FirstWithinBelow(_, _, _)
FirstWithinBelow(newHash, hashMap, i) ==
    IF i > Len(hashMap) THEN NULL
    ELSE IF hammingDistance(newHash, hashMap[i].hash) < HAMMING_THRESHOLD
    THEN hashMap[i].hash
    ELSE FirstWithinBelow(newHash, hashMap, i + 1)

\* for (const existingHash of hashMap.keys()), from the i-th key on
RECURSIVE FirstWithin(_, _, _)
FirstWithin(newHash, hashMap, i) ==
    IF i > Len(hashMap) THEN NULL
    ELSE IF hammingDistance(newHash, hashMap[i].hash) <= HAMMING_THRESHOLD
    THEN hashMap[i].hash
    ELSE FirstWithin(newHash, hashMap, i + 1)

\* Mutant of findMatchingHash: any comparable key matches.
findComparableHash(newHash, hashMap) ==
    LET same == { i \in 1..Len(hashMap) :
                    hammingDistance(newHash, hashMap[i].hash) < Infinity }
    IN  IF same = {} THEN NULL
        ELSE hashMap[CHOOSE i \in same : \A j \in same : i <= j].hash

\* Mutant of findMatchingHash: the nearest key within the threshold is taken.
findNearestHash(newHash, hashMap) ==
    LET near == { i \in 1..Len(hashMap) :
                    hammingDistance(newHash, hashMap[i].hash) <= HAMMING_THRESHOLD }
    IN  IF near = {} THEN NULL
        ELSE hashMap[CHOOSE i \in near : \A j \in near :
                 \/ hammingDistance(newHash, hashMap[i].hash)
                      < hammingDistance(newHash, hashMap[j].hash)
                 \/ /\ hammingDistance(newHash, hashMap[i].hash)
                         = hammingDistance(newHash, hashMap[j].hash)
                    /\ i <= j].hash

findMatchingHash(newHash, hashMap) ==
    IF HashHas(hashMap, newHash) THEN newHash
    ELSE FirstWithin(newHash, hashMap, 1)

\* ------------------------------------------------------ memory management

\* The for-of loop of evictOldestEntries over processedSrcUrls: the entries
\* are visited oldest first and the visited entry is deleted.
RECURSIVE EvictLoop(_, _, _, _)
EvictLoop(p, g, removed, entriesToRemove) ==
    IF p = <<>> \/ removed >= entriesToRemove THEN [p |-> p, g |-> g]
    ELSE EvictLoop(Tail(p), HashRemove(g, Head(p).hash, Head(p).src),
                   removed + 1, entriesToRemove)

\* Mutant of EvictProcessed: one entry too many is removed.
EvictProcessedOffByOne(p, g) ==
    IF Len(p) > MAX_CACHE_ENTRIES
    THEN EvictLoop(p, g, 0, Len(p) - MAX_CACHE_ENTRIES + 1)
    ELSE [p |-> p, g |-> g]

EvictProcessed(p, g) ==
    IF Len(p) > MAX_CACHE_ENTRIES
    THEN EvictLoop(p, g, 0, Len(p) - MAX_CACHE_ENTRIES)
    ELSE [p |-> p, g |-> g]

\* The for-of loop over failedUrls.
RECURSIVE EvictFailedLoop(_, _, _)
EvictFailedLoop(f, removed, entriesToRemove) ==
    IF f = <<>> \/ removed >= entriesToRemove THEN f
    ELSE EvictFailedLoop(Tail(f), removed + 1, entriesToRemove)

\* Mutant of EvictFailed: the oldest entry goes whatever the size.
EvictFailedAnySize(f) == IF f = <<>> THEN f ELSE Tail(f)

\* Mutant of EvictFailed: entries are removed down to the capacity.
EvictFailedToCap(f) ==
    IF Len(f) > MAX_FAILED_ENTRIES
    THEN EvictFailedLoop(f, 0, Len(f) - MAX_FAILED_ENTRIES)
    ELSE f

EvictFailed(f) ==
    IF Len(f) > MAX_FAILED_ENTRIES
    THEN EvictFailedLoop(f, 0, Len(f) \div 2)
    ELSE f

\* ------------------------------------------------------- page processing

\* Mutant of RecordFailure: the set is replaced, not added to.
RecordFailureOnly(f, src) == <<src>>

\* failedUrls.add(src)
RecordFailure(f, src) == SetAdd(f, src)

\* processedSrcUrls.set(src, targetKey)
RecordMapping(p, src, targetKey) == SrcSet(p, src, targetKey)

\* Mutant of TrackGroup: the source is put only into a newly created group.
TrackGroupNewOnly(g, targetKey, src) ==
    IF HashHas(g, targetKey) THEN g ELSE HashAdd(g, targetKey, src)

\* hashToSrcUrls.set(targetKey, new Set()) when absent, then .add(src)
TrackGroup(g, targetKey, src) == HashAdd(g, targetKey, src)

\* Mutant of HighlightCall: the size is tested with >= 1.
HighlightCallAlways(g, targetKey) ==
    LET matchingSrcs == HashGet(g, targetKey)
    IN  IF Cardinality(matchingSrcs) >= 1
        THEN <<[targetHash |-> targetKey, size |-> Cardinality(matchingSrcs)]>>
        ELSE <<>>

\* if (matchingSrcs.size > 1) updateAllMatchingImages(targetKey): the calls
\* made, each with the group size it marks the images with.
HighlightCall(g, targetKey) ==
    LET matchingSrcs == HashGet(g, targetKey)
    IN  IF Cardinality(matchingSrcs) > 1
        THEN <<[targetHash |-> targetKey, size |-> Cardinality(matchingSrcs)]>>
        ELSE <<>>

\* Mutant of ProcessImageThen: a solid-colour hash is grouped like any other.
ProcessImageThenNoSolidTest(p, g, f, src, realHash) ==
    IF realHash = NULL
    THEN [p |-> p, g |-> g, f |-> RecordFailure(f, src), e |-> <<>>]
    ELSE LET matchKey  == findMatchingHash(realHash, g)
             targetKey == IF matchKey = NULL THEN realHash ELSE matchKey
             groups    == TrackGroup(g, targetKey, src)
         IN  [p |-> RecordMapping(p, src, targetKey),
              g |-> groups,
              f |-> f,
              e |-> HighlightCall(groups, targetKey)]

\* The reaction processImage attaches to queueHash(src): the new
\* processedSrcUrls (p), hashToSrcUrls (g) and failedUrls (f), and the
\* updateAllMatchingImages calls it makes (e).
ProcessImageThen(p, g, f, src, realHash) ==
    IF realHash = NULL
    THEN [p |-> p, g |-> g, f |-> RecordFailure(f, src), e |-> <<>>]
    ELSE IF isSolidColor(realHash)
    THEN [p |-> p, g |-> g, f |-> f, e |-> <<>>]
    ELSE LET matchKey  == findMatchingHash(realHash, g)
             targetKey == IF matchKey = NULL THEN realHash ELSE matchKey
             groups    == TrackGroup(g, targetKey, src)
         IN  [p |-> RecordMapping(p, src, targetKey),
              g |-> groups,
              f |-> f,
              e |-> HighlightCall(groups, targetKey)]

\* ------------------------------------------------------------ hash queue

\* Mutant of NextTask: queue.pop(), the newest task.
NextTaskNewest(q) == q[Len(q)]

\* queue.shift()
NextTask(q) == Head(q)

\* Mutant of ProcessQueue: a second task is started while one is active.
ProcessQueueTwoAtOnce(q, busy, act) ==
    IF q = <<>> \/ Cardinality(act) >= 2
    THEN [queue |-> q, isProcessing |-> busy, active |-> act, start |-> <<>>]
    ELSE [queue |-> Tail(q),
          isProcessing |-> TRUE,
          active |-> act \cup {[id |-> Head(q).id, url |-> Head(q).url,
                                stage |-> "fetch"]},
          start |-> <<Head(q).id>>]

\* Mutant of ProcessQueue: isProcessing is not tested.
ProcessQueueNoFlag(q, busy, act) ==
    IF q = <<>>
    THEN [queue |-> q, isProcessing |-> busy, active |-> act, start |-> <<>>]
    ELSE [queue |-> Tail(q),
          isProcessing |-> TRUE,
          active |-> act \cup {[id |-> Head(q).id, url |-> Head(q).url,
                                stage |-> "fetch"]},
          start |-> <<Head(q).id>>]

\* processQueue up to the call of computeHashInternal, which runs to its
\* first await (the message to the background script): the new queue,
\* isProcessing and active tasks, and the request started, if any.
ProcessQueue(q, busy, act) ==
    IF busy \/ q = <<>>
    THEN [queue |-> q, isProcessing |-> busy, active |-> act, start |-> <<>>]
    ELSE LET task == NextTask(q)
         IN  [queue |-> SeqWithout(q, CHOOSE i \in 1..Len(q) : q[i] = task),
              isProcessing |-> TRUE,
              active |-> act \cup {[id |-> task.id, url |-> task.url,
                                    stage |-> "fetch"]},
              start |-> <<task.id>>]

\* --------------------------------------------------------------- state

VARIABLES
    processedSrcUrls,   \* Map src -> group key, in insertion order
    hashToSrcUrls,      \* Map group key -> Set of src, in insertion order
    failedUrls,         \* Set of src, in insertion order
    queue,              \* tasks pushed by queueHash and not yet shifted
    isProcessing,       \* the flag of processQueue
    active,             \* tasks inside computeHashInternal
    timers,             \* pending THROTTLE_MS timers
    requests,           \* url of every queueHash call; the index is the id
    started,            \* ids in the order processQueue started them
    resolved,           \* per id, the values passed to task.resolve
    lastEvict,          \* sizes the latest evictOldestEntries call found
    highlights,         \* per id, the updateAllMatchingImages calls made
    evicted,            \* the sources evictOldestEntries has removed so far,
                        \* a failed one with the number of requests made then
    call,               \* a call of a function of the hash module: its inputs
    result,             \* what the call returned, once it has
    messages,           \* FETCH_IMAGE_BLOB messages and what became of them
    page,               \* a run of the processPage loop that persists hashes
    thumbs              \* the IndexedDB store of ThumbDB and the calls of
                        \* upsertThumbnailRecord

vars == <<processedSrcUrls, hashToSrcUrls, failedUrls, queue, isProcessing,
          active, timers, requests, started, resolved, lastEvict, highlights,
          evicted, call, result, messages, page, thumbs>>

\* The variables the content script's tracker and queue do not touch.
aux == <<call, result, messages, page, thumbs>>

tracker == <<processedSrcUrls, hashToSrcUrls, failedUrls>>

dispatcher == <<queue, isProcessing, active, timers, requests, started, resolved>>

\* The content script after its construction.
ContentInit ==
    /\ processedSrcUrls = <<>>
    /\ hashToSrcUrls = <<>>
    /\ failedUrls = <<>>
    /\ queue = <<>>
    /\ isProcessing = FALSE
    /\ active = {}
    /\ timers = 0
    /\ requests = <<>>
    /\ started = <<>>
    /\ resolved = <<>>
    /\ lastEvict = [tracked |-> 0, failed |-> 0]
    /\ highlights = <<>>
    /\ evicted = [tracked |-> {}, failed |-> {}]

\* No call of the hash module under study.
NoCall == call = [fn |-> "none"] /\ result = <<>>

NoMessages == messages = <<>>

NoPage == page = [stage |-> "none"]

\* An empty store, and no call of upsertThumbnailRecord yet.
NoThumbs == thumbs = [store |-> <<>>, calls |-> <<>>, puts |-> 0, now |-> 1]

Init == ContentInit /\ NoCall /\ NoMessages /\ NoPage /\ NoThumbs

\* Mutant of QueueHash: the task is pushed and processQueue is not called.
QueueHashNoKick(url) ==
    /\ queue' = Append(queue, [id |-> Len(requests) + 1, url |-> url])
    /\ requests' = Append(requests, url)
    /\ resolved' = Append(resolved, <<>>)
    /\ highlights' = Append(highlights, <<>>)
    /\ UNCHANGED <<isProcessing, active, started, timers>>

\* queueHash(url): push the task, then processQueue().
QueueHash(url) ==
    LET id == Len(requests) + 1
        d  == ProcessQueue(Append(queue, [id |-> id, url |-> url]),
                           isProcessing, active)
    IN  /\ queue' = d.queue
        /\ isProcessing' = d.isProcessing
        /\ active' = d.active
        /\ started' = started \o d.start
        /\ requests' = Append(requests, url)
        /\ resolved' = Append(resolved, <<>>)
        /\ highlights' = Append(highlights, <<>>)
        /\ UNCHANGED timers

\* Mutant of Reapply: the image is marked whatever the size of its group.
ReapplyAlways(p, g, src) ==
    LET knownHash == SrcGet(p, src)
    IN  IF HashHas(g, knownHash)
        THEN <<[src |-> src, size |-> Cardinality(HashGet(g, knownHash))]>>
        ELSE <<>>

\* The markDuplicateThumbnail(img, srcSet.size) call that processImage makes
\* for an image whose source is tracked: if (srcSet && srcSet.size > 1).
Reapply(p, g, src) ==
    LET knownHash == SrcGet(p, src)
    IN  IF HashHas(g, knownHash) /\ Cardinality(HashGet(g, knownHash)) > 1
        THEN <<[src |-> src, size |-> Cardinality(HashGet(g, knownHash))]>>
        ELSE <<>>

\* What processImage does for a tracked source, then return: with the call
\* "processImage" under study, result holds the mark of the latest one.
Rehighlight(src) ==
    /\ result' = IF call.fn = "processImage"
                 THEN Reapply(processedSrcUrls, hashToSrcUrls, src)
                 ELSE result
    /\ UNCHANGED <<tracker, dispatcher, lastEvict, highlights, evicted, call,
                   messages, page, thumbs>>

\* Mutant of ProcessImage: failedUrls is not tested.
ProcessImageRetryFailed(src) ==
    IF SrcHas(processedSrcUrls, src)
    THEN Rehighlight(src)
    ELSE /\ Len(requests) < MaxRequests
         /\ QueueHash(src)
         /\ UNCHANGED <<tracker, lastEvict, evicted, aux>>

\* processImage(img) for an image whose source is src, called when the image
\* enters the viewport.  A tracked or failed source is not queued.
ProcessImage(src) ==
    IF SrcHas(processedSrcUrls, src)
    THEN Rehighlight(src)
    ELSE IF src \in Members(failedUrls)
         THEN UNCHANGED vars
         ELSE /\ Len(requests) < MaxRequests
              /\ QueueHash(src)
              /\ UNCHANGED <<tracker, lastEvict, evicted, aux>>

\* Mutant of Settle: the finally clears the flag and calls processQueue at
\* once, without the timer.
SettleNoThrottle(t, hash) ==
    \E n \in {ProcessImageThen(processedSrcUrls, hashToSrcUrls, failedUrls,
                                t.url, hash)} :
      \E d \in {ProcessQueue(queue, FALSE, active \ {t})} :
        /\ resolved' = [resolved EXCEPT ![t.id] = Append(@, hash)]
        /\ processedSrcUrls' = n.p
        /\ hashToSrcUrls' = n.g
        /\ failedUrls' = n.f
        /\ queue' = d.queue
        /\ isProcessing' = d.isProcessing
        /\ active' = d.active
        /\ started' = started \o d.start
        /\ highlights' = [highlights EXCEPT ![t.id] = @ \o n.e]
        /\ UNCHANGED <<timers, requests, lastEvict, evicted, aux>>

\* The task's promise chain once computeHashInternal has settled:
\* task.resolve(hash) (or task.resolve(null) from the catch), the reaction of
\* processImage, and the finally that arms the throttle timer.
Settle(t, hash) ==
    \E n \in {ProcessImageThen(processedSrcUrls, hashToSrcUrls, failedUrls,
                                t.url, hash)} :
        /\ resolved' = [resolved EXCEPT ![t.id] = Append(@, hash)]
        /\ processedSrcUrls' = n.p
        /\ hashToSrcUrls' = n.g
        /\ failedUrls' = n.f
        /\ active' = active \ {t}
        /\ highlights' = [highlights EXCEPT ![t.id] = @ \o n.e]
        /\ timers' = timers + 1
        /\ UNCHANGED <<queue, isProcessing, requests, started, lastEvict,
                       evicted, aux>>

\* The background script answers with a data URL: computeHashInternal goes
\* on to loadImage.
FetchSucceeds(t) ==
    /\ t.stage = "fetch"
    /\ active' = (active \ {t}) \cup {[t EXCEPT !.stage = "decode"]}
    /\ UNCHANGED <<tracker, queue, isProcessing, timers, requests, started,
                   resolved, lastEvict, highlights, evicted, aux>>

\* chrome.runtime.lastError, no response or success false:
\* fetchImageViaBackground resolves null and computeHashInternal returns null.
FetchFails(t) ==
    /\ t.stage = "fetch"
    /\ Settle(t, NULL)

\* img.onload: the image is drawn and hashed.
ImageLoads(t, hash) ==
    /\ t.stage = "decode"
    /\ Settle(t, hash)

\* Mutant of ImageFails: the rejection is not caught, so task.resolve is
\* never called; the finally still arms the timer.
ImageFailsUncaught(t) ==
    /\ t.stage = "decode"
    /\ active' = active \ {t}
    /\ timers' = timers + 1
    /\ UNCHANGED <<tracker, queue, isProcessing, requests, started, resolved,
                   lastEvict, highlights, evicted, aux>>

\* img.onerror: loadImage rejects and the catch of processQueue resolves null.
ImageFails(t) ==
    /\ t.stage = "decode"
    /\ Settle(t, NULL)

\* Mutant of ThrottleTimer: the flag is cleared but processQueue is not called.
ThrottleTimerNoRestart ==
    /\ timers > 0
    /\ isProcessing' = FALSE
    /\ timers' = timers - 1
    /\ UNCHANGED <<tracker, queue, active, requests, started, resolved,
                   lastEvict, highlights, evicted, aux>>

\* The THROTTLE_MS timer armed by the finally of processQueue.
ThrottleTimer ==
    /\ timers > 0
    /\ \E d \in {ProcessQueue(queue, FALSE, active)} :
           /\ queue' = d.queue
           /\ isProcessing' = d.isProcessing
           /\ active' = d.active
           /\ started' = started \o d.start
    /\ timers' = timers - 1
    /\ UNCHANGED <<tracker, requests, resolved, lastEvict, highlights,
                   evicted, aux>>

\* evictOldestEntries(), the first statement of observeNewImages.
EvictOldestEntries ==
    LET e == EvictProcessed(processedSrcUrls, hashToSrcUrls)
    IN  /\ processedSrcUrls' = e.p
        /\ hashToSrcUrls' = e.g
        /\ failedUrls' = EvictFailed(failedUrls)
        /\ lastEvict' = [tracked |-> Len(processedSrcUrls),
                         failed |-> Len(failedUrls)]
        /\ evicted' =
              [tracked |-> evicted.tracked \cup
                             { src \in Urls : /\ SrcHas(processedSrcUrls, src)
                                              /\ ~SrcHas(e.p, src) },
               failed  |-> evicted.failed \cup
                             { [src |-> src, at |-> Len(requests)] :
                                 src \in Members(failedUrls)
                                           \ Members(EvictFailed(failedUrls)) }]
        /\ UNCHANGED <<dispatcher, highlights, aux>>

\* observeNewImages(): evicts, then hands the untracked images to the
\* IntersectionObserver, whose callback is ProcessImage.
ObserveNewImages == EvictOldestEntries

\* The sources the page has shown so far and the next new one: sources are
\* opaque, so they are numbered in the order of their first request.
ShownUrls == { src \in Urls : src <= Cardinality(Members(requests)) + 1 }

Next ==
    \/ \E src \in ShownUrls : ProcessImage(src)
    \/ \E t \in active : FetchSucceeds(t)
    \/ \E t \in active : FetchFails(t)
    \/ \E t \in active : \E hash \in ImageHashes : ImageLoads(t, hash)
    \/ \E t \in active : ImageFails(t)
    \/ ThrottleTimer
    \/ ObserveNewImages

Spec == Init /\ [][Next]_vars

\* The background script answers the FETCH_IMAGE_BLOB message.
ProviderAnswers == \E t \in active : FetchSucceeds(t) \/ FetchFails(t)

\* The Image fires onload or onerror.
ImageSettles ==
    \E t \in active : (\E hash \in ImageHashes : ImageLoads(t, hash)) \/ ImageFails(t)

\* Every timer fires and every image decoding ends, but the background
\* script need not answer.
TimeoutSpec ==
    /\ Spec
    /\ WF_vars(ThrottleTimer)
    /\ WF_vars(ImageSettles)

\* Every pixel-provider call eventually answers and every timer fires.
FairSpec ==
    /\ Spec
    /\ WF_vars(ThrottleTimer)
    /\ WF_vars(ProviderAnswers)
    /\ WF_vars(ImageSettles)

\* ------------------------------------------- images seen again by a scan
\* The content script with the marks of processImage on tracked sources
\* under study: result holds the latest of them.
RescanInit ==
    /\ ContentInit
    /\ call = [fn |-> "processImage"]
    /\ result = <<>>
    /\ NoMessages
    /\ NoPage
    /\ NoThumbs

RescanSpec == RescanInit /\ [][Next]_vars

\* ------------------------------------------------- a burst of new images
\* Many images with new sources enter the viewport at once: the
\* IntersectionObserver calls processImage for each, and every call reaches
\* queueHash.  A behaviour of BurstSpec is one such burst and the work of the
\* queue on it, without rescans of the page.

\* The one fingerprint the images of a burst are given.
BurstHashes == { <<"0", "1">> }

\* processImage(img) for an image with a source not seen before.
ProcessNewImage ==
    /\ Len(requests) < MaxBurst
    /\ QueueHash(Len(requests) + 1)
    /\ UNCHANGED <<tracker, lastEvict, evicted, aux>>

BurstNext ==
    \/ ProcessNewImage
    \/ \E t \in active : FetchSucceeds(t)
    \/ \E t \in active : FetchFails(t)
    \/ \E t \in active : \E hash \in BurstHashes : ImageLoads(t, hash)
    \/ \E t \in active : ImageFails(t)
    \/ ThrottleTimer

BurstSpec == Init /\ [][BurstNext]_vars

\* ------------------------------------------------- the hash functions
\* hammingDistance, findMatchingHash, binToHex and the dHash loops of
\* computeHashInternal are functions of their arguments: a behaviour of
\* HashSpec is one call, repeated, on inputs drawn from bounded sets.

\* All sequences over S of length at most n.
RECURSIVE SeqsUpTo(_, _)
SeqsUpTo(S, n) ==
    IF n = 0 THEN { <<>> }
    ELSE LET shorter == SeqsUpTo(S, n - 1)
         IN  shorter \cup { Append(q, x) : q \in shorter, x \in S }

\* Hex strings: the empty string, every digit, and longer strings over six
\* of the digits.
HexStrings ==
    SeqsUpTo({"0", "1", "7", "8", "a", "f"}, MaxHashLen)
      \cup { <<c>> : c \in Members(HexDigits) }

\* hashToSrcUrls with keys of one, two and three characters.
GroupMaps ==
    LET keys == { <<"f">>, <<"0", "f">>, <<"0", "f", "0">> }
    IN  { <<>> }
          \cup { <<[hash |-> k, srcs |-> {1}]>> : k \in keys }
          \cup UNION { { <<[hash |-> k1, srcs |-> {1}],
                              [hash |-> k2, srcs |-> {2}]>> :
                            k2 \in keys \ {k1} } : k1 \in keys }

\* hashStr of computeHashInternal: strings of "0" and "1".
BitStrings == SeqsUpTo({"0", "1"}, MaxBits)

\* Two RGBA pixels: the first is darker by its colour channels (3 against 4)
\* but has the larger red channel and the larger alpha.
Pixels == { <<3, 0, 0, 255>>, <<2, 2, 0, 0>> }

\* imgData.data of an n x n canvas: n * n pixels of four channels, row-major.
PixelArrays(count) ==
    { [i \in 1..(4 * count) |-> grid[((i - 1) \div 4) + 1][((i - 1) % 4) + 1]] :
        grid \in [1..count -> Pixels] }

\* Mutant of PixelBit: the brightness is compared with >=.
PixelBitGreaterEqual(pixels, n, x, y) ==
    LET iA == (y * n + x) * 4
        bA == pixels[iA + 1] + pixels[iA + 2] + pixels[iA + 3]
        iB == (y * n + (x + 1)) * 4
        bB == pixels[iB + 1] + pixels[iB + 2] + pixels[iB + 3]
    IN  IF bA >= bB THEN "1" ELSE "0"

\* The body of the inner dHash loop; pixels is 0-based in the code.  The
\* code divides both sums by 3, which does not change their order.
PixelBit(pixels, n, x, y) ==
    LET iA == (y * n + x) * 4
        bA == pixels[iA + 1] + pixels[iA + 2] + pixels[iA + 3]
        iB == (y * n + (x + 1)) * 4
        bB == pixels[iB + 1] + pixels[iB + 2] + pixels[iB + 3]
    IN  IF bA > bB THEN "1" ELSE "0"

\* for (let x = 0; x < TARGET_SIZE - 1; x++), from x on
RECURSIVE RowBits(_, _, _, _)
RowBits(pixels, n, y, x) ==
    IF x >= n - 1 THEN <<>>
    ELSE <<PixelBit(pixels, n, x, y)>> \o RowBits(pixels, n, y, x + 1)

\* for (let y = 0; y < TARGET_SIZE; y++), from y on
RECURSIVE GridBits(_, _, _)
GridBits(pixels, n, y) ==
    IF y >= n THEN <<>>
    ELSE RowBits(pixels, n, y, 0) \o GridBits(pixels, n, y + 1)

\* parseInt(chunk, 2) for a chunk of four characters
parseInt2(chunk) ==
    LET b(i) == IF chunk[i] = "1" THEN 1 ELSE 0
    IN  8 * b(1) + 4 * b(2) + 2 * b(3) + b(4)

\* Mutant of PadChunk: the zeros are put in front.
PadChunkLeft(chunk) == [i \in 1..(4 - Len(chunk)) |-> "0"] \o chunk

\* while (chunk.length < 4) chunk += '0'
PadChunk(chunk) == chunk \o [i \in 1..(4 - Len(chunk)) |-> "0"]

\* The for loop of binToHex from the 0-based index i on.
RECURSIVE BinToHexFrom(_, _)
BinToHexFrom(bin, i) ==
    IF i >= Len(bin) THEN <<>>
    ELSE LET last  == IF i + 4 < Len(bin) THEN i + 4 ELSE Len(bin)
             chunk == PadChunk(SubSeq(bin, i + 1, last))
         IN  <<HexDigits[parseInt2(chunk) + 1]>> \o BinToHexFrom(bin, i + 4)

binToHex(bin) == BinToHexFrom(bin, 0)

\* Step 4 of computeHashInternal on the pixels read from an n x n canvas
\* (the code's TARGET_SIZE is 32).
computeHash(pixels, n) == binToHex(GridBits(pixels, n, 0))

\* The call under study and its arguments.
HashCall ==
    \/ \E a \in HexStrings, b \in HexStrings :
          call = [fn |-> "hammingDistance", h1 |-> a, h2 |-> b]
    \/ \E a \in HexStrings, g \in GroupMaps :
          call = [fn |-> "findMatchingHash", newHash |-> a, hashMap |-> g]
    \/ \E bin \in BitStrings :
          call = [fn |-> "binToHex", bin |-> bin]
    \/ \E n \in 2..MaxGrid :
          \E px \in PixelArrays(n * n) :
            call = [fn |-> "computeHash", n |-> n, pixels |-> px]

HashInit ==
    /\ ContentInit
    /\ NoMessages
    /\ NoPage
    /\ NoThumbs
    /\ HashCall
    /\ result = <<>>

\* The call returns v.
Returns(v) ==
    /\ Len(result) < MaxCalls
    /\ result' = Append(result, v)
    /\ UNCHANGED <<tracker, dispatcher, lastEvict, highlights, evicted, call,
                   messages, page, thumbs>>

HammingDistanceCall ==
    /\ call.fn = "hammingDistance"
    /\ Returns(hammingDistance(call.h1, call.h2))

FindMatchingHashCall ==
    /\ call.fn = "findMatchingHash"
    /\ Returns(findMatchingHash(call.newHash, call.hashMap))

BinToHexCall ==
    /\ call.fn = "binToHex"
    /\ Returns(binToHex(call.bin))

ComputeHashCall ==
    /\ call.fn = "computeHash"
    /\ Returns(computeHash(call.pixels, call.n))

HashNext ==
    \/ HammingDistanceCall
    \/ FindMatchingHashCall
    \/ BinToHexCall
    \/ ComputeHashCall

HashSpec == HashInit /\ [][HashNext]_vars

\* ------------------------------------------- the background fetch handler
\* background.js answers the FETCH_IMAGE_BLOB messages that
\* fetchImageViaBackground sends.  messages holds, per message, its url, the
\* stage of the handler, the number of network fetches issued, the responses
\* given to sendResponse and the settlements of the content script's promise.

\* Two of the hosts of the allow-list, as sequences of labels.
ALLOWED_IMAGE_HOSTS == { <<"i", "ytimg", "com">>, <<"i", "redd", "it">> }

\* What new URL(urlString) makes of the request's url: valid is FALSE when
\* the constructor throws.
MessageUrls ==
    { [valid |-> TRUE,  protocol |-> "https:", hostname |-> <<"i", "ytimg", "com">>],
      [valid |-> TRUE,  protocol |-> "http:",  hostname |-> <<"a", "i", "redd", "it">>],
      [valid |-> TRUE,  protocol |-> "https:", hostname |-> <<"xi", "ytimg", "com">>],
      [valid |-> TRUE,  protocol |-> "https:", hostname |-> <<"evil", "org">>],
      [valid |-> TRUE,  protocol |-> "ftp:",   hostname |-> <<"i", "ytimg", "com">>],
      [valid |-> FALSE, protocol |-> "",       hostname |-> <<>>] }

\* A data URL as FileReader gives it.
DataUrl == <<"data:">>

\* url.hostname.endsWith('.' + host)
EndsWithDotHost(hostname, host) ==
    /\ Len(hostname) > Len(host)
    /\ SubSeq(hostname, Len(hostname) - Len(host) + 1, Len(hostname)) = host

isAllowedUrl(url) ==
    IF ~url.valid THEN FALSE
    ELSE IF url.protocol \notin {"https:", "http:"} THEN FALSE
    ELSE \E host \in ALLOWED_IMAGE_HOSTS :
            url.hostname = host \/ EndsWithDotHost(url.hostname, host)

\* The callback fetchImageViaBackground gives to sendMessage; responses holds
\* the response, if there is one.
fetchCallback(lastError, responses) ==
    IF lastError \/ responses = <<>> \/ ~responses[1].success
    THEN [settled |-> "resolved", value |-> NULL]
    ELSE [settled |-> "resolved", value |-> responses[1].dataUrl]

\* sendResponse(response) ends the handling of message i.
SendResponse(i, response, cause) ==
    messages' = [messages EXCEPT ![i].answers = Append(@, response),
                                 ![i].stage = "done",
                                 ![i].cause = cause]

Unchanged == UNCHANGED <<tracker, dispatcher, lastEvict, highlights, evicted,
                         call, result, page, thumbs>>

\* chrome.runtime.sendMessage({ action: 'FETCH_IMAGE_BLOB', url: url }, ...)
SendMessage(url) ==
    /\ Len(messages) < MaxMessages
    /\ messages' = Append(messages,
                          [url |-> url, stage |-> "sent", fetches |-> 0,
                           answers |-> <<>>, outcome |-> <<>>,
                           cause |-> "none"])
    /\ Unchanged

\* Mutant of OnMessage: the url is fetched without the allow-list test.
OnMessageNoAllowlist(i) ==
    /\ messages[i].stage = "sent"
    /\ messages' = [messages EXCEPT ![i].fetches = @ + 1,
                                    ![i].stage = "fetching"]
    /\ Unchanged

\* The onMessage listener runs for message i.
OnMessage(i) ==
    /\ messages[i].stage = "sent"
    /\ IF ~isAllowedUrl(messages[i].url)
       THEN SendResponse(i, [success |-> FALSE, dataUrl |-> NULL], "blocked")
       ELSE messages' = [messages EXCEPT ![i].fetches = @ + 1,
                                        ![i].stage = "fetching"]
    /\ Unchanged

\* fetch(url) resolves with a response: the first then.
FetchResolves(i, ok) ==
    /\ messages[i].stage = "fetching"
    /\ IF ~ok
       THEN SendResponse(i, [success |-> FALSE, dataUrl |-> NULL], "http")
       ELSE messages' = [messages EXCEPT ![i].stage = "blob"]
    /\ Unchanged

\* fetch(url) rejects: the catch.
FetchRejects(i) ==
    /\ messages[i].stage = "fetching"
    /\ SendResponse(i, [success |-> FALSE, dataUrl |-> NULL], "network")
    /\ Unchanged

\* response.blob() settles: the second then, or the catch.
BlobSettles(i, ok) ==
    /\ messages[i].stage = "blob"
    /\ IF ~ok
       THEN SendResponse(i, [success |-> FALSE, dataUrl |-> NULL], "blob")
       ELSE messages' = [messages EXCEPT ![i].stage = "reading"]
    /\ Unchanged

\* reader.onloadend; reader.result is null when the read failed.
ReaderLoadEnd(i, readerResult) ==
    /\ messages[i].stage = "reading"
    /\ SendResponse(i, [success |-> TRUE, dataUrl |-> readerResult], "read")
    /\ Unchanged

\* The response reaches the content script's callback.
ResponseCallback(i) ==
    /\ Len(messages[i].answers) = 1
    /\ messages[i].outcome = <<>>
    /\ messages' = [messages EXCEPT
                       ![i].outcome = <<fetchCallback(FALSE, messages[i].answers)>>]
    /\ Unchanged

\* The message port closes before an answer (no listener, the extension is
\* reloaded): the callback runs with chrome.runtime.lastError set.
RuntimeError(i) ==
    /\ messages[i].answers = <<>>
    /\ messages[i].outcome = <<>>
    /\ messages' = [messages EXCEPT
                       ![i].outcome = <<fetchCallback(TRUE, <<>>)>>,
                       ![i].stage = "lost",
                       ![i].cause = "runtime"]
    /\ Unchanged

\* The steps of the handler, of the network and of the message channel.
HandlerStep ==
    \E i \in 1..Len(messages) :
        \/ OnMessage(i)
        \/ \E ok \in BOOLEAN : FetchResolves(i, ok)
        \/ FetchRejects(i)
        \/ \E ok \in BOOLEAN : BlobSettles(i, ok)
        \/ \E readerResult \in {NULL, DataUrl} : ReaderLoadEnd(i, readerResult)
        \/ ResponseCallback(i)

MessageInit == ContentInit /\ NoCall /\ NoPage /\ NoThumbs /\ messages = <<>>

MessageNext ==
    \/ \E url \in MessageUrls : SendMessage(url)
    \/ HandlerStep
    \/ \E i \in 1..Len(messages) : RuntimeError(i)

\* The listener runs for every message, every fetch and every read settles
\* and every response is delivered.
MessageSpec ==
    /\ MessageInit
    /\ [][MessageNext]_vars
    /\ WF_vars(HandlerStep)

\* ------------------------------------------- the page scan with a store
\* The earlier content script (src/unnamed/part_000) scans the page in
\* processPage: one image after the other, awaiting its hash and then the
\* upsert into the IndexedDB store.  page holds the batch, the position of
\* the loop, the two maps, the highlight calls of the run, the keys written
\* to the store and the images the loop is done with.  One run is followed
\* by the next: the 1 s debounce keeps the scans of a settled page apart.

\* validImgs: the sources of the images of the batch.
Batches == SeqsUpTo(1..MaxBatch, MaxBatch)

\* What queueHash resolves with.
QueueHashResults == ImageHashes \cup {NULL}

\* The for loop of processPage from page.index up to its next await: images
\* whose source is tracked are re-marked and passed.
RECURSIVE LoopFrom(_)
LoopFrom(pg) ==
    IF pg.index > Len(pg.imgs) THEN [pg EXCEPT !.stage = "finished"]
    ELSE LET src == pg.imgs[pg.index]
         IN  IF SrcHas(pg.p, src)
             THEN LET knownHash == SrcGet(pg.p, src)
                      size == IF HashHas(pg.g, knownHash)
                              THEN Cardinality(HashGet(pg.g, knownHash))
                              ELSE 0
                  IN  LoopFrom([pg EXCEPT
                          !.marks = IF size > 1
                                    THEN Append(@, [srcs |-> {src}, count |-> size])
                                    ELSE @,
                          !.done = Append(@, src),
                          !.index = @ + 1])
             ELSE [pg EXCEPT !.stage = "hashing"]

\* Mutant of AfterUpsert: a rejection of the upsert is not caught where it
\* happens and ends the iteration in the outer catch.
AfterUpsertUncaught(pg, ok) ==
    LET src == pg.imgs[pg.index]
        matchingSrcs == HashGet(pg.g, pg.target)
    IN  IF ok
        THEN [pg EXCEPT
                !.store = Append(@, pg.target),
                !.marks = IF Cardinality(matchingSrcs) > 1
                          THEN Append(@, [srcs |-> matchingSrcs \cap Members(pg.imgs),
                                          count |-> Cardinality(matchingSrcs)])
                          ELSE @,
                !.done = Append(@, src),
                !.index = @ + 1]
        ELSE [pg EXCEPT !.done = Append(@, src), !.index = @ + 1]

\* The rest of the iteration once upsertThumbnailRecord has settled: a
\* rejection is caught and logged, then the duplicates are marked.
AfterUpsert(pg, ok) ==
    LET src == pg.imgs[pg.index]
        matchingSrcs == HashGet(pg.g, pg.target)
    IN  [pg EXCEPT
            !.store = IF ok THEN Append(@, pg.target) ELSE @,
            !.marks = IF Cardinality(matchingSrcs) > 1
                      THEN Append(@, [srcs |-> matchingSrcs \cap Members(pg.imgs),
                                      count |-> Cardinality(matchingSrcs)])
                      ELSE @,
            !.done = Append(@, src),
            !.index = @ + 1]

LegacyUnchanged == UNCHANGED <<tracker, dispatcher, lastEvict, highlights,
                               evicted, call, result, messages, thumbs>>

\* processPage() starts on the images imgs.
ProcessPage(imgs) ==
    /\ page.stage \in {"idle", "finished"}
    /\ page.runs < MaxRuns
    /\ \E e \in {EvictProcessed(page.p, page.g)} :
          page' = LoopFrom([page EXCEPT !.stage = "loop",
                                        !.imgs = imgs,
                                        !.index = 1,
                                        !.p = e.p,
                                        !.g = e.g,
                                        !.marks = <<>>,
                                        !.done = <<>>,
                                        !.target = NULL,
                                        !.runs = @ + 1])
    /\ LegacyUnchanged

\* await window.ThumbHash.queueHash(src) resolves with realHash.
HashSettles(realHash) ==
    /\ page.stage = "hashing"
    /\ LET src == page.imgs[page.index]
           matchKey == findMatchingHash(realHash, page.g)
           targetKey == IF matchKey # NULL THEN matchKey ELSE realHash
       IN  IF realHash = NULL \/ isSolidColor(realHash)
           THEN page' = LoopFrom([page EXCEPT !.done = Append(@, src),
                                              !.index = @ + 1])
           ELSE page' = [page EXCEPT !.p = SrcSet(@, src, targetKey),
                                     !.g = HashAdd(@, targetKey, src),
                                     !.target = targetKey,
                                     !.stage = "upsert"]
    /\ LegacyUnchanged

\* await window.ThumbDB.upsertThumbnailRecord(targetKey, pageUrl) settles.
UpsertSettles(ok) ==
    /\ page.stage = "upsert"
    /\ page' = LoopFrom(AfterUpsert(page, ok))
    /\ LegacyUnchanged

LegacyInit ==
    /\ ContentInit
    /\ NoCall
    /\ NoMessages
    /\ NoThumbs
    /\ page = [stage |-> "idle", imgs |-> <<>>, index |-> 1, p |-> <<>>,
               g |-> <<>>, marks |-> <<>>, store |-> <<>>, done |-> <<>>,
               target |-> NULL, runs |-> 0]

LegacyNext ==
    \/ \E imgs \in Batches : ProcessPage(imgs)
    \/ \E realHash \in QueueHashResults : HashSettles(realHash)
    \/ \E ok \in BOOLEAN : UpsertSettles(ok)

LegacySpec == LegacyInit /\ [][LegacyNext]_vars

\* ------------------------------------------ background.js: the ThumbDB store

\* Calls of upsertThumbnailRecord in a run.
MaxUpserts == 3

\* The keys and the page addresses the calls are made with.
StoreHashes == {"01", "0f"}

PageUrls == {"page1", "page2"}

\* store.get(hash): the record with this key, if there is one.
StoreGet(s, hash) ==
    IF \E i \in 1..Len(s) : s[i].hash = hash
    THEN <<s[CHOOSE i \in 1..Len(s) : s[i].hash = hash]>>
    ELSE <<>>

\* store.put(rec): the record replaces the one with its key (keyPath hash).
StorePut(s, rec) ==
    IF \E i \in 1..Len(s) : s[i].hash = rec.hash
    THEN [i \in 1..Len(s) |-> IF s[i].hash = rec.hash THEN rec ELSE s[i]]
    ELSE Append(s, rec)

\* urls.includes(pageUrl)
Includes(urls, pageUrl) == \E i \in 1..Len(urls) : urls[i] = pageUrl

\* Mutant of Updated: the address is pushed without the includes test.
UpdatedAlwaysPush(existing, hash, pageUrl, now) ==
    IF existing # <<>>
    THEN LET urls == Append(existing[1].urls, pageUrl)
         IN  <<[existing[1] EXCEPT !.count = Len(urls), !.urls = urls,
                                   !.lastSeenAt = now]>>
    ELSE <<[hash |-> hash, count |-> 1, urls |-> <<pageUrl>>,
            firstSeenAt |-> now, lastSeenAt |-> now]>>

\* The record getReq.onsuccess computes from what store.get found: the
\* existing record itself when the address is recorded already.
Updated(existing, hash, pageUrl, now) ==
    IF existing # <<>>
    THEN IF ~Includes(existing[1].urls, pageUrl)
         THEN LET urls == Append(existing[1].urls, pageUrl)
              IN  <<[existing[1] EXCEPT !.count = Len(urls), !.urls = urls,
                                        !.lastSeenAt = now]>>
         ELSE existing
    ELSE <<[hash |-> hash, count |-> 1, urls |-> <<pageUrl>>,
            firstSeenAt |-> now, lastSeenAt |-> now]>>

StoreUnchanged == UNCHANGED <<tracker, dispatcher, lastEvict, highlights,
                              evicted, call, result, messages, page>>

\* upsertThumbnailRecord(hash, pageUrl) is called; its transaction waits for
\* the database.
UpsertThumbnailRecord(hash, pageUrl) ==
    /\ Len(thumbs.calls) < MaxUpserts
    /\ thumbs' = [thumbs EXCEPT !.calls =
                     Append(@, [hash |-> hash, pageUrl |-> pageUrl,
                                state |-> "pending", value |-> <<>>])]
    /\ StoreUnchanged

\* The readwrite transaction of call i runs: getReq.onsuccess, and the put
\* it makes when the record it computed is not the one it read.  putOk is
\* whether that put succeeds; a failed put aborts the transaction.
GetSucceeds(i, putOk) ==
    /\ i \in 1..Len(thumbs.calls)
    /\ thumbs.calls[i].state = "pending"
    /\ LET c == thumbs.calls[i]
           existing == StoreGet(thumbs.store, c.hash)
           updated == Updated(existing, c.hash, c.pageUrl, thumbs.now)
       IN  IF updated # existing
           THEN IF putOk
                THEN thumbs' = [thumbs EXCEPT
                        !.store = StorePut(@, updated[1]),
                        !.puts = @ + 1,
                        !.now = @ + 1,
                        !.calls[i].state = "resolved",
                        !.calls[i].value = updated]
                ELSE thumbs' = [thumbs EXCEPT
                        !.now = @ + 1,
                        !.calls[i].state = "rejected"]
           ELSE /\ putOk
                /\ thumbs' = [thumbs EXCEPT
                        !.now = @ + 1,
                        !.calls[i].state = "resolved",
                        !.calls[i].value = existing]
    /\ StoreUnchanged

\* getReq.onerror: the call is rejected.
GetFails(i) ==
    /\ i \in 1..Len(thumbs.calls)
    /\ thumbs.calls[i].state = "pending"
    /\ thumbs' = [thumbs EXCEPT !.now = @ + 1, !.calls[i].state = "rejected"]
    /\ StoreUnchanged

StoreNext ==
    \/ \E hash \in StoreHashes, pageUrl \in PageUrls :
          UpsertThumbnailRecord(hash, pageUrl)
    \/ \E i \in 1..MaxUpserts, putOk \in BOOLEAN : GetSucceeds(i, putOk)
    \/ \E i \in 1..MaxUpserts : GetFails(i)

StoreSpec == Init /\ [][StoreNext]_vars

\* ================================================================ claims

\* The request with this id got a hash that ProcessImageThen classifies.
Classified(id) ==
    /\ id \in 1..Len(resolved)
    /\ resolved[id] # <<>>
    /\ resolved[id][1] # NULL
    /\ ~isSolidColor(resolved[id][1])

\* src was classified and is tracked no longer: evictOldestEntries removed it.
Evicted(src) ==
    /\ \E id \in 1..Len(requests) : requests[id] = src /\ Classified(id)
    /\ ~SrcHas(processedSrcUrls, src)

\* C1: for every source key k of processedSrcUrls, hashToSrcUrls has the key
\* processedSrcUrls[k] and the member set stored under it contains k.
C1_ForwardInGroup ==
    \A i \in 1..Len(processedSrcUrls) :
        /\ HashHas(hashToSrcUrls, processedSrcUrls[i].hash)
        /\ processedSrcUrls[i].src
              \in HashGet(hashToSrcUrls, processedSrcUrls[i].hash)

\* A source joined an existing group, and an eviction has removed another.
C1_Witness ==
    /\ \E src \in Urls : Evicted(src)
    /\ \E i \in 1..Len(processedSrcUrls) :
          /\ \E id \in 1..Len(requests) :
                /\ requests[id] = processedSrcUrls[i].src
                /\ Classified(id)
                /\ resolved[id][1] # processedSrcUrls[i].hash
          /\ HashHas(hashToSrcUrls, processedSrcUrls[i].hash)

\* C2: no source key is in processedSrcUrls and in failedUrls at once.
C2_TrackedXorFailed ==
    \A src \in Urls :
        ~(SrcHas(processedSrcUrls, src) /\ src \in Members(failedUrls))

\* C3: every key of hashToSrcUrls maps to a non-empty member set.
C3_GroupsNonEmpty ==
    \A i \in 1..Len(hashToSrcUrls) : hashToSrcUrls[i].srcs # {}

\* An eviction removed the last member of a group, whose key is gone, while
\* another group is still there.
C3_Witness ==
    /\ hashToSrcUrls # <<>>
    /\ \E id \in 1..Len(requests) :
          /\ Classified(id)
          /\ Evicted(requests[id])
          /\ ~HashHas(hashToSrcUrls, resolved[id][1])
          /\ \A i \in 1..Len(hashToSrcUrls) :
                requests[id] \notin hashToSrcUrls[i].srcs

\* The one task isProcessing lets into computeHashInternal at a time.
ConcurrencyLimit == 1

\* C4: never more tasks are active than the concurrency limit.
C4_ActiveWithinLimit == Cardinality(active) <= ConcurrencyLimit

\* Every request of the behaviour is submitted; one is active, the others wait.
C4_Witness ==
    /\ Len(requests) = MaxRequests
    /\ Cardinality(active) = ConcurrencyLimit
    /\ Len(queue) = MaxRequests - 1

InQueue(id) == \E i \in 1..Len(queue) : queue[i].id = id

\* C5: every request submitted is eventually started and task.resolve is
\* called for it exactly once, with a hash or null; a task leaves the queue
\* only by being started.
C5_EveryRequestResolvedOnce ==
    /\ [](\A id \in 1..Len(resolved) :
            /\ Len(resolved[id]) <= 1
            /\ resolved[id] # <<>> => resolved[id][1] \in ImageHashes \cup {NULL})
    /\ \A id \in 1..MaxRequests :
          (Len(requests) >= id)
             ~> (id \in Members(started) /\ Len(resolved[id]) = 1)
    /\ [][\A i \in 1..Len(queue) :
            \/ \E j \in 1..Len(queue') : queue'[j] = queue[i]
            \/ queue[i].id \in Members(started')]_vars

\* All requests are resolved, one of them after waiting in the queue behind two.
C5_Witness ==
    /\ Len(requests) = MaxRequests
    /\ \A id \in 1..MaxRequests : Len(resolved[id]) = 1
    /\ started = <<1, 2, 3>>
    /\ queue = <<>>

\* The active task t fails: the fetch is refused or the decoding rejects.
RequestFails(t) == FetchFails(t) \/ ImageFails(t)

\* C6: when the active request fails its promise resolves with null, the
\* queue is untouched and the throttle timer is armed; every request that
\* waits behind a failed one is still started and resolved.
C6_FailureIsolated ==
    /\ [][\A t \in active :
            RequestFails(t) =>
                /\ resolved'[t.id] = <<NULL>>
                /\ queue' = queue
                /\ timers' = timers + 1
                /\ \A id \in 1..Len(resolved) :
                      id # t.id => resolved'[id] = resolved[id]]_vars
    /\ \A id \in 1..MaxRequests :
          (/\ \E failed \in 1..Len(resolved) : resolved[failed] = <<NULL>>
           /\ InQueue(id))
             ~> (id \in Members(started) /\ Len(resolved[id]) = 1)

\* The first request failed in the decoding, the second in the fetch, and the
\* third, which waited behind both, got a hash.
C6_Witness ==
    /\ Len(resolved) = 3
    /\ resolved[1] = <<NULL>>
    /\ resolved[2] = <<NULL>>
    /\ Len(resolved[3]) = 1
    /\ resolved[3][1] # NULL
    /\ started = <<1, 2, 3>>

InFetch(id) == \E t \in active : t.id = id /\ t.stage = "fetch"

\* C7: the dispatcher never stalls, whether or not the background script
\* answers: a request that waits for the answer is eventually resolved, and
\* every request in the queue is eventually started.
C7_NeverStalls ==
    \A id \in 1..MaxRequests :
        /\ InFetch(id) ~> (id <= Len(resolved) /\ Len(resolved[id]) = 1)
        /\ InQueue(id) ~> (id \in Members(started))

\* C8: requests are started in the order of their queueHash calls.
C8_StartedInFifoOrder ==
    /\ \A i \in 1..Len(started) : \A j \in 1..Len(started) :
          i < j => started[i] < started[j]
    /\ \A id \in Members(started) : \A earlier \in 1..id :
          earlier \in Members(started)

\* The second request was started while the third was waiting behind it.
C8_Witness ==
    /\ started = <<1, 2>>
    /\ Len(queue) = 1
    /\ queue[1].id = 3
    /\ Len(resolved[1]) = 1

\* What an evictOldestEntries step must do to the tracked sources.
EvictsOldestTracked ==
    LET n    == Len(processedSrcUrls)
        k    == n - MAX_CACHE_ENTRIES
        Gone(hash) ==
            { processedSrcUrls[i].src :
                i \in { j \in 1..k : processedSrcUrls[j].hash = hash } }
    IN  n > MAX_CACHE_ENTRIES =>
          /\ Len(processedSrcUrls') = MAX_CACHE_ENTRIES
          /\ processedSrcUrls' = SubSeq(processedSrcUrls, k + 1, n)
          /\ \A i \in 1..Len(hashToSrcUrls) :
                LET e    == hashToSrcUrls[i]
                    rest == e.srcs \ Gone(e.hash)
                IN  IF rest = {}
                    THEN ~HashHas(hashToSrcUrls', e.hash)
                    ELSE /\ HashHas(hashToSrcUrls', e.hash)
                         /\ HashGet(hashToSrcUrls', e.hash) = rest
          /\ \A i \in 1..Len(hashToSrcUrls') :
                HashHas(hashToSrcUrls, hashToSrcUrls'[i].hash)

\* C9: evictOldestEntries with more than MAX_CACHE_ENTRIES tracked sources
\* removes the oldest (count - MAX_CACHE_ENTRIES) of them and leaves the
\* others in place; each removed source leaves the group it maps to, and a
\* group left empty is deleted.
C9_EvictsOldestTracked == [][EvictOldestEntries => EvictsOldestTracked]_vars

\* The latest eviction found MAX_CACHE_ENTRIES + 2 tracked sources.
C9_Witness ==
    /\ lastEvict.tracked = MAX_CACHE_ENTRIES + 2
    /\ Len(processedSrcUrls) = MAX_CACHE_ENTRIES
    /\ Cardinality({ src \in Urls : Evicted(src) }) = 2

\* C10: evictOldestEntries with n > MAX_FAILED_ENTRIES failed sources removes
\* the oldest floor(n / 2) of them, and none when n <= MAX_FAILED_ENTRIES.
C10_EvictsOldestHalfOfFailed ==
    [][EvictOldestEntries =>
        LET n == Len(failedUrls)
        IN  IF n > MAX_FAILED_ENTRIES
            THEN failedUrls' = SubSeq(failedUrls, (n \div 2) + 1, n)
            ELSE failedUrls' = failedUrls]_vars

\* The latest eviction found three failed sources and left two.
C10_Witness ==
    /\ lastEvict.failed = 3
    /\ Len(failedUrls) = 2

\* The step is the completion of request t with the non-degenerate hash f.
Classifies(t, f) == ImageLoads(t, f) /\ ~isSolidColor(f)

\* The group key the classification rule names for fingerprint f: f when it
\* is a key, else the first key in insertion order within the threshold,
\* else f as the key of a new group.
RuleTarget(f) ==
    LET near == { i \in 1..Len(hashToSrcUrls) :
                    hammingDistance(f, hashToSrcUrls[i].hash) <= HAMMING_THRESHOLD }
    IN  IF \E i \in 1..Len(hashToSrcUrls) : hashToSrcUrls[i].hash = f THEN f
        ELSE IF near # {}
        THEN hashToSrcUrls[CHOOSE i \in near : \A j \in near : i <= j].hash
        ELSE f

\* What a classification of t.url with fingerprint f must do.
ClassifiedByRule(t, f) ==
    LET target == RuleTarget(f)
        before == IF HashHas(hashToSrcUrls, target)
                  THEN HashGet(hashToSrcUrls, target) ELSE {}
    IN  /\ SrcHas(processedSrcUrls', t.url)
        /\ SrcGet(processedSrcUrls', t.url) = target
        /\ HashHas(hashToSrcUrls', target)
        /\ HashGet(hashToSrcUrls', target) = before \cup {t.url}
        /\ \A i \in 1..Len(hashToSrcUrls) :
              /\ hashToSrcUrls'[i].hash = hashToSrcUrls[i].hash
              /\ hashToSrcUrls[i].hash # target
                    => hashToSrcUrls'[i] = hashToSrcUrls[i]
        /\ Len(hashToSrcUrls') =
              Len(hashToSrcUrls) + (IF HashHas(hashToSrcUrls, target) THEN 0 ELSE 1)
        /\ \A i \in 1..Len(highlights'[t.id]) :
              /\ highlights'[t.id][i].targetHash = target
              /\ highlights'[t.id][i].size = Cardinality(before \cup {t.url})

\* C11: a completion with a non-degenerate fingerprint f takes as target the
\* key equal to f if there is one, else the first key in insertion order
\* within HAMMING_THRESHOLD of f (not the nearest), else f as a new key; it
\* records the source under the target, adds the source to the target's
\* member set, and the member count it reports is the size of that set.
C11_TargetByRule ==
    [][\A t \in active : \A f \in ImageHashes :
          Classifies(t, f) => ClassifiedByRule(t, f)]_vars

\* A source sits in the group of the first key within the threshold of its
\* fingerprint while a later key is nearer to it.
C11_Witness ==
    \E id \in 1..Len(requests) :
      \E i \in 1..Len(hashToSrcUrls) : \E j \in 1..Len(hashToSrcUrls) :
        /\ Classified(id)
        /\ i < j
        /\ evicted.tracked = {}
        /\ requests[id] \in hashToSrcUrls[i].srcs
        /\ resolved[id][1] # hashToSrcUrls[i].hash
        /\ SrcGet(processedSrcUrls, requests[id]) = hashToSrcUrls[i].hash
        /\ hammingDistance(resolved[id][1], hashToSrcUrls[j].hash)
              < hammingDistance(resolved[id][1], hashToSrcUrls[i].hash)

\* Exactly one request for src got a hash that was classified.
ClassifiedOnce(src) ==
    Cardinality({ id \in 1..Len(requests) :
                    requests[id] = src /\ Classified(id) }) = 1

\* The fingerprint computed for src, not the key of its group.
OwnHash(src) ==
    resolved[CHOOSE id \in 1..Len(requests) :
                requests[id] = src /\ Classified(id)][1]

\* src is tracked after its one classification.
TrackedOnce(src) == SrcHas(processedSrcUrls, src) /\ ClassifiedOnce(src)

SameGroup(a, b) ==
    \E i \in 1..Len(hashToSrcUrls) : {a, b} \subseteq hashToSrcUrls[i].srcs

\* evictOldestEntries has removed no tracked source so far.
NoEviction == evicted.tracked = {}

\* C12 as stated: without eviction, two tracked sources whose own
\* fingerprints are within HAMMING_THRESHOLD of each other are members of
\* the same group.
C12_NearKeysShareGroup ==
    NoEviction =>
        \A a \in Urls : \A b \in Urls :
            (/\ a # b
             /\ TrackedOnce(a)
             /\ TrackedOnce(b)
             /\ hammingDistance(OwnHash(a), OwnHash(b)) <= HAMMING_THRESHOLD)
                => SameGroup(a, b)

\* C12 as amended: without eviction, two tracked sources whose own
\* fingerprints are identical are members of the same group, and the own
\* fingerprint of every tracked source is within HAMMING_THRESHOLD of the
\* key of the group it is recorded in.
C12_SameHashSharesGroup ==
    NoEviction =>
        /\ \A a \in Urls : \A b \in Urls :
              (/\ a # b
               /\ TrackedOnce(a)
               /\ TrackedOnce(b)
               /\ OwnHash(a) = OwnHash(b))
                  => SameGroup(a, b)
        /\ \A a \in Urls :
              TrackedOnce(a) =>
                  hammingDistance(OwnHash(a), SrcGet(processedSrcUrls, a))
                      <= HAMMING_THRESHOLD

\* Two sources with the same fingerprint joined the group of an older key
\* that differs from their fingerprint.
C12_Witness ==
    /\ NoEviction
    /\ \E a \in Urls : \E b \in Urls :
          /\ a # b
          /\ TrackedOnce(a)
          /\ TrackedOnce(b)
          /\ OwnHash(a) = OwnHash(b)
          /\ OwnHash(a) # SrcGet(processedSrcUrls, a)
          /\ SameGroup(a, b)

\* C13: when exactly two non-degenerate fingerprints of equal length, more
\* than HAMMING_THRESHOLD apart, have been classified for two sources, in
\* either order and with no eviction, the sources are in two different
\* groups of size 1, each keyed by its own fingerprint.
C13_FarPairTwoGroups ==
    \A id1 \in 1..Len(requests) : \A id2 \in 1..Len(requests) :
        (/\ id1 < id2
         /\ Classified(id1)
         /\ Classified(id2)
         /\ \A id \in 1..Len(requests) : Classified(id) => id \in {id1, id2}
         /\ requests[id1] # requests[id2]
         /\ NoEviction
         /\ Len(resolved[id1][1]) = Len(resolved[id2][1])
         /\ hammingDistance(resolved[id1][1], resolved[id2][1])
               > HAMMING_THRESHOLD)
            => /\ hashToSrcUrls =
                    << [hash |-> resolved[id1][1], srcs |-> {requests[id1]}],
                       [hash |-> resolved[id2][1], srcs |-> {requests[id2]}] >>
               /\ SrcGet(processedSrcUrls, requests[id1]) = resolved[id1][1]
               /\ SrcGet(processedSrcUrls, requests[id2]) = resolved[id2][1]

\* f0 then 0f, 8 bits apart, were classified for two sources; a third
\* request gave no fingerprint.
C13_Witness ==
    /\ NoEviction
    /\ Len(requests) = 3
    /\ \E id1 \in 1..3 : \E id2 \in 1..3 : \E id3 \in 1..3 :
          /\ id1 < id2
          /\ resolved[id1] = << <<"f", "0">> >>
          /\ resolved[id2] = << <<"0", "f">> >>
          /\ resolved[id3] = <<NULL>>
          /\ requests[id1] # requests[id2]
          /\ Len(hashToSrcUrls) = 2

\* Hex strings made only of "0" or only of "f".
DegenerateHashes ==
    { <<"0">>, <<"0", "0">>, <<"0", "0", "0">>,
      <<"f">>, <<"f", "f">>, <<"f", "f", "f">> }

\* C14: a completion with a degenerate fingerprint (only "0" or only "f"
\* characters) changes nothing: processedSrcUrls, hashToSrcUrls and
\* failedUrls stay as they are and no highlight call is made.
C14_DegenerateIgnored ==
    /\ [](\A src \in Urls : \A hash \in DegenerateHashes :
            ProcessImageThen(processedSrcUrls, hashToSrcUrls, failedUrls,
                             src, hash)
              = [p |-> processedSrcUrls, g |-> hashToSrcUrls,
                 f |-> failedUrls, e |-> <<>>])
    /\ [][\A t \in active : \A hash \in ImageHashes \cap DegenerateHashes :
            ImageLoads(t, hash) =>
                /\ tracker' = tracker
                /\ highlights'[t.id] = <<>>
                /\ resolved'[t.id] = <<hash>>]_vars

\* A request was resolved with the all-zero hash while a source was tracked.
C14_Witness ==
    \E id \in 2..Len(requests) :
        /\ resolved[id] # <<>>
        /\ resolved[id][1] \in DegenerateHashes
        /\ Classified(id - 1)
        /\ SrcHas(processedSrcUrls, requests[id - 1])
        /\ ~SrcHas(processedSrcUrls, requests[id])
        /\ requests[id] \notin Members(failedUrls)
        /\ highlights[id] = <<>>

\* The completion of key src with this outcome gives the same forward map,
\* groups and highlight calls after the step as before it.
SameClassification(src, hash) ==
    LET before == ProcessImageThen(processedSrcUrls, hashToSrcUrls,
                                   failedUrls, src, hash)
        after  == ProcessImageThen(processedSrcUrls', hashToSrcUrls',
                                   failedUrls', src, hash)
    IN  /\ after.p = before.p
        /\ after.g = before.g
        /\ after.e = before.e

\* C15: when the request of key k resolves with null, k is added to
\* failedUrls, processedSrcUrls and hashToSrcUrls are unchanged, and for
\* every other key nothing differs from k not having been submitted: its
\* membership in failedUrls, whether processImage would queue it, and the
\* result of classifying it with any fingerprint are as before the step.
C15_FailureOnlyRecorded ==
    [][\A t \in active :
          RequestFails(t) =>
              /\ Members(failedUrls') = Members(failedUrls) \cup {t.url}
              /\ \A i \in 1..Len(failedUrls) : failedUrls'[i] = failedUrls[i]
              /\ processedSrcUrls' = processedSrcUrls
              /\ hashToSrcUrls' = hashToSrcUrls
              /\ highlights' = highlights
              /\ \A src \in Urls \ {t.url} :
                    /\ (src \in Members(failedUrls'))
                          <=> (src \in Members(failedUrls))
                    /\ \A hash \in ImageHashes :
                          SameClassification(src, hash)]_vars

\* The second request failed between two classifications, and the third
\* source joined the group of the first.
C15_Witness ==
    /\ Len(requests) = 3
    /\ Classified(1)
    /\ resolved[2] = <<NULL>>
    /\ Classified(3)
    /\ requests[2] \notin {requests[1], requests[3]}
    /\ requests[2] \in Members(failedUrls)
    /\ ~SrcHas(processedSrcUrls, requests[2])
    /\ SameGroup(requests[1], requests[3])
    /\ requests[1] # requests[3]
    /\ highlights[3] # <<>>

\* The step submits a request: queueHash is called.
Submits == Len(requests') = Len(requests) + 1

\* C16: a source in failedUrls is never submitted to queueHash; it leaves
\* failedUrls only in evictOldestEntries, and a submission after that is
\* handled like that of a new key: the task is pushed and started or left
\* waiting, and the tracker is not touched.
C16_FailedNotRetried ==
    [][/\ Submits =>
            /\ requests'[Len(requests')] \notin Members(failedUrls)
            /\ requests' = Append(requests, requests'[Len(requests')])
            /\ resolved'[Len(requests')] = <<>>
            /\ \/ \E i \in 1..Len(queue') : queue'[i].id = Len(requests')
               \/ \E t \in active' : t.id = Len(requests')
            /\ tracker' = tracker
       /\ \A src \in Members(failedUrls) :
            src \notin Members(failedUrls') =>
                /\ EvictOldestEntries
                /\ \E r \in evicted'.failed : r.src = src]_vars

\* A source failed, was removed from failedUrls by an eviction made after
\* two requests, and was then submitted again as the third request.
C16_Witness ==
    \E r \in evicted.failed :
        /\ r.at = 2
        /\ Len(requests) = 3
        /\ requests[3] = r.src
        /\ \E id \in 1..2 : requests[id] = r.src /\ resolved[id] = <<NULL>>
        /\ r.src \notin Members(failedUrls)
        /\ resolved[3] = <<>>

\* C17: for every source key the classification (the completion that writes
\* processedSrcUrls and hashToSrcUrls) runs at most once between two
\* evictions of the key: it never runs for a key that is tracked, that is,
\* classified before and not evicted since.
C17_ClassifiedOncePerKey ==
    [][\A t \in active : \A f \in ImageHashes :
          Classifies(t, f) => ~SrcHas(processedSrcUrls, t.url)]_vars

\* C18: the entry of a tracked source in processedSrcUrls never changes from
\* its creation until the eviction that deletes it, and a group's member
\* set loses a member only inside evictOldestEntries.
C18_EntriesImmutable ==
    [][/\ \A i \in 1..Len(processedSrcUrls) :
            LET src == processedSrcUrls[i].src
            IN  IF SrcHas(processedSrcUrls', src)
                THEN SrcGet(processedSrcUrls', src) = processedSrcUrls[i].hash
                ELSE EvictOldestEntries
       /\ \A i \in 1..Len(hashToSrcUrls) : \A src \in hashToSrcUrls[i].srcs :
            (\/ ~HashHas(hashToSrcUrls', hashToSrcUrls[i].hash)
             \/ src \notin HashGet(hashToSrcUrls', hashToSrcUrls[i].hash))
                => EvictOldestEntries]_vars

\* Requests a, b and c are the three requests made, for three sources; a and
\* b got the same non-degenerate fingerprint and c one farther than
\* HAMMING_THRESHOLD from it; nothing was evicted.
Scenario(a, b, c) ==
    /\ Len(requests) = 3
    /\ {a, b, c} = 1..3
    /\ a < b
    /\ Cardinality({requests[a], requests[b], requests[c]}) = 3
    /\ Classified(a)
    /\ Classified(b)
    /\ Classified(c)
    /\ resolved[a][1] = resolved[b][1]
    /\ hammingDistance(resolved[c][1], resolved[a][1]) > HAMMING_THRESHOLD
    /\ NoEviction

\* C19: after the three completions A and B are in one group of size 2, which
\* the later of their classifications reports, C is alone in a group of size
\* 1, and C's classification makes no highlight call.
C19_EndToEnd ==
    \A a \in 1..3 : \A b \in 1..3 : \A c \in 1..3 :
        Scenario(a, b, c) =>
            /\ Len(hashToSrcUrls) = 2
            /\ HashGet(hashToSrcUrls, resolved[a][1]) = {requests[a], requests[b]}
            /\ HashGet(hashToSrcUrls, resolved[c][1]) = {requests[c]}
            /\ SrcGet(processedSrcUrls, requests[a]) = resolved[a][1]
            /\ SrcGet(processedSrcUrls, requests[b]) = resolved[a][1]
            /\ SrcGet(processedSrcUrls, requests[c]) = resolved[c][1]
            /\ highlights[a] = <<>>
            /\ highlights[b] = <<[targetHash |-> resolved[a][1], size |-> 2]>>
            /\ highlights[c] = <<>>

\* The scenario with C completed between A and B.
C19_Witness == Scenario(1, 3, 2)

\* C20: a classification makes the highlight call, for the target key and
\* with the member count, if and only if the target group has more than
\* one member after the insertion.
C20_HighlightIffShared ==
    [][\A t \in active : \A f \in ImageHashes :
          Classifies(t, f) =>
              LET key   == SrcGet(processedSrcUrls', t.url)
                  count == Cardinality(HashGet(hashToSrcUrls', key))
              IN  /\ (highlights'[t.id] # <<>>) <=> (count > 1)
                  /\ highlights'[t.id] # <<>> =>
                        highlights'[t.id]
                          = <<[targetHash |-> key, size |-> count]>>]_vars

\* One classification made the call for a group of two and a later one,
\* alone in its group, made none.
C20_Witness ==
    \E id1 \in 1..Len(requests) : \E id2 \in 1..Len(requests) :
        /\ id1 < id2
        /\ Classified(id1)
        /\ highlights[id1] # <<>>
        /\ highlights[id1][1].size = 2
        /\ Classified(id2)
        /\ highlights[id2] = <<>>

\* ---------------------------------------------------------------- C21..C26
\* The results of the call made so far.
Results == { result[i] : i \in 1..Len(result) }

\* C21: for every fingerprint string a, the empty string included,
\* hammingDistance(a, a) returns 0.
C21_SelfDistanceZero ==
    (call.fn = "hammingDistance" /\ call.h1 = call.h2)
        => \A d \in Results : d = 0

\* C22: for all hex strings a and b of equal length, hammingDistance(a, b)
\* equals hammingDistance(b, a).
C22_Symmetric ==
    (call.fn = "hammingDistance" /\ Len(call.h1) = Len(call.h2))
        => \A d \in Results : d = hammingDistance(call.h2, call.h1)

C22_Witness ==
    /\ call.fn = "hammingDistance"
    /\ call.h1 = <<"0", "f">>
    /\ call.h2 = <<"a", "1">>
    /\ result = <<5>>

\* C23: for strings a and b of different length hammingDistance(a, b)
\* returns Infinity, and findMatchingHash never returns a group key whose
\* length differs from the length of the new fingerprint.
C23_UnequalLengthIncomparable ==
    /\ (call.fn = "hammingDistance" /\ Len(call.h1) # Len(call.h2))
          => \A d \in Results : d = Infinity
    /\ call.fn = "findMatchingHash"
          => \A k \in Results : k # NULL => Len(k) = Len(call.newHash)

C23_Witness ==
    /\ call.fn = "findMatchingHash"
    /\ call.newHash = <<"0", "7">>
    /\ Len(call.hashMap) = 2
    /\ call.hashMap[1].hash = <<"f">>
    /\ result = << <<"0", "f">> >>

\* The four bits of a hex digit, most significant first.
Expand(c) ==
    CASE c = "0" -> <<0, 0, 0, 0>>  [] c = "1" -> <<0, 0, 0, 1>>
      [] c = "2" -> <<0, 0, 1, 0>>  [] c = "3" -> <<0, 0, 1, 1>>
      [] c = "4" -> <<0, 1, 0, 0>>  [] c = "5" -> <<0, 1, 0, 1>>
      [] c = "6" -> <<0, 1, 1, 0>>  [] c = "7" -> <<0, 1, 1, 1>>
      [] c = "8" -> <<1, 0, 0, 0>>  [] c = "9" -> <<1, 0, 0, 1>>
      [] c = "a" -> <<1, 0, 1, 0>>  [] c = "b" -> <<1, 0, 1, 1>>
      [] c = "c" -> <<1, 1, 0, 0>>  [] c = "d" -> <<1, 1, 0, 1>>
      [] c = "e" -> <<1, 1, 1, 0>>  [] c = "f" -> <<1, 1, 1, 1>>

\* The number of bit positions in which the expansions of a and b differ.
BitsApart(a, b) ==
    Cardinality({ pos \in (1..Len(a)) \X (1..4) :
                    Expand(a[pos[1]])[pos[2]] # Expand(b[pos[1]])[pos[2]] })

\* C24: for non-empty hex strings a and b of equal length hammingDistance(a, b)
\* is the number of bit positions in which their 4-bit-per-digit expansions
\* differ, between 0 and 4 * length; ('0f','f0') gives 8, ('0','1') gives 1
\* and ('0','f') gives 4.
C24_CountsDifferingBits ==
    /\ (call.fn = "hammingDistance" /\ call.h1 # <<>>
            /\ Len(call.h1) = Len(call.h2))
          => \A d \in Results :
                /\ d = BitsApart(call.h1, call.h2)
                /\ d \in 0..(4 * Len(call.h1))
    /\ (call.fn = "hammingDistance" /\ call.h1 = <<"0", "f">>
            /\ call.h2 = <<"f", "0">>) => \A d \in Results : d = 8
    /\ (call.fn = "hammingDistance" /\ call.h1 = <<"0">>
            /\ call.h2 = <<"1">>) => \A d \in Results : d = 1
    /\ (call.fn = "hammingDistance" /\ call.h1 = <<"0">>
            /\ call.h2 = <<"f">>) => \A d \in Results : d = 4

C24_Witness ==
    /\ call.fn = "hammingDistance"
    /\ call.h1 = <<"0", "f">>
    /\ call.h2 = <<"f", "0">>
    /\ result = <<8, 8>>

\* The sum of the colour channels of the pixel in column x of row y
\* (columns and rows counted from 0).
ChannelSum(pixels, n, x, y) ==
    LET first == 4 * (y * n + x) + 1
    IN  pixels[first] + pixels[first + 1] + pixels[first + 2]

\* Bit k (from 0, row-major) of the grid: row k div (n-1), pair k mod (n-1).
GridBit(pixels, n, k) ==
    LET y == k \div (n - 1)
        x == k % (n - 1)
    IN  IF k >= n * (n - 1) THEN 0
        ELSE IF ChannelSum(pixels, n, x, y) > ChannelSum(pixels, n, x + 1, y)
        THEN 1 ELSE 0

\* The fingerprint as the claim describes it: digit d packs the bits
\* 4d .. 4d+3, the first of them most significant, missing bits being 0.
PackedBits(pixels, n) ==
    [d \in 1..((n * (n - 1) + 3) \div 4) |->
        HexDigits[8 * GridBit(pixels, n, 4 * (d - 1))
                  + 4 * GridBit(pixels, n, 4 * (d - 1) + 1)
                  + 2 * GridBit(pixels, n, 4 * (d - 1) + 2)
                  + GridBit(pixels, n, 4 * (d - 1) + 3) + 1]]

\* The same pixels with every alpha channel changed.
OtherAlpha(pixels) ==
    [i \in DOMAIN pixels |-> IF i % 4 = 0 THEN 255 - pixels[i] ELSE pixels[i]]

\* C25: the fingerprint of an n x n grid depends on the pixels only; its bit
\* for row y and pair x is 1 exactly when the colour channels of pixel (x, y)
\* sum to more than those of pixel (x+1, y), alpha being ignored; the
\* n * (n-1) bits are taken row-major and packed four per hex digit from the
\* left, the last group padded with zeros on the right, which gives
\* ceil(n * (n-1) / 4) digits.
C25_FingerprintOfPixels ==
    call.fn = "computeHash"
        => \A h \in Results :
              /\ h = PackedBits(call.pixels, call.n)
              /\ Len(h) * 4 >= call.n * (call.n - 1)
              /\ Len(h) * 4 < call.n * (call.n - 1) + 4
              /\ h = computeHash(OtherAlpha(call.pixels), call.n)
              /\ Results = {h}

\* A 2 x 2 grid whose first row falls in brightness and whose second rises,
\* hashed twice.
C25_Witness ==
    /\ call.fn = "computeHash"
    /\ call.n = 2
    /\ call.pixels = <<2, 2, 0, 0, 3, 0, 0, 255, 3, 0, 0, 255, 2, 2, 0, 0>>
    /\ result = << <<"8">>, <<"8">> >>

\* Every pixel of the buffer has the colour of the first.
ConstantColour(pixels) ==
    \A i \in DOMAIN pixels : pixels[i] = pixels[((i - 1) % 4) + 1]

AllChars(str, c) == str # <<>> /\ \A i \in 1..Len(str) : str[i] = c

\* The two parts of C26 that hold for bit strings of every length.
UniformZeroDegenerate ==
    /\ (call.fn = "computeHash" /\ ConstantColour(call.pixels))
          => \A h \in Results : AllChars(h, "0")
    /\ (call.fn = "binToHex" /\ AllChars(call.bin, "0"))
          => \A h \in Results : AllChars(h, "0") /\ isSolidColor(h)

\* C26: for every grid size a constant-colour buffer gives a fingerprint of
\* '0' characters only, and every fingerprint whose bits are all 0 or all 1
\* is rendered by binToHex as '0' characters only or 'f' characters only,
\* which isSolidColor classifies as degenerate.
C26_UniformBitsDegenerate ==
    /\ UniformZeroDegenerate
    /\ (call.fn = "binToHex" /\ AllChars(call.bin, "1"))
          => \A h \in Results : AllChars(h, "f") /\ isSolidColor(h)
    /\ (call.fn = "computeHash"
            /\ AllChars(GridBits(call.pixels, call.n, 0), "1"))
          => \A h \in Results : AllChars(h, "f") /\ isSolidColor(h)

\* C26 as amended: the all-1 part holds when the number of bits is a
\* multiple of 4, as it is for the 32 x 31 bits of the code's grid.
C26_AlignedUniformBitsDegenerate ==
    /\ UniformZeroDegenerate
    /\ (call.fn = "binToHex" /\ AllChars(call.bin, "1")
            /\ Len(call.bin) % 4 = 0)
          => \A h \in Results : AllChars(h, "f") /\ isSolidColor(h)
    /\ (call.fn = "computeHash"
            /\ AllChars(GridBits(call.pixels, call.n, 0), "1")
            /\ (call.n * (call.n - 1)) % 4 = 0)
          => \A h \in Results : AllChars(h, "f") /\ isSolidColor(h)

C26_Witness ==
    /\ call.fn = "binToHex"
    /\ call.bin = <<"1", "1", "1", "1", "1", "1", "1", "1">>
    /\ result = << <<"f", "f">> >>

\* ---------------------------------------------------------------- C27..C28
\* C27: in every reachable state processedSrcUrls holds at most
\* MAX_CACHE_ENTRIES entries, however the completions of hash requests are
\* interleaved with observeNewImages and its evictOldestEntries.
C27_CacheWithinCapacity == Len(processedSrcUrls) <= MAX_CACHE_ENTRIES

\* C28: when evictOldestEntries returns, failedUrls holds at most
\* MAX_FAILED_ENTRIES sources, however many failures were recorded since the
\* call before.
C28_FailedWithinCapacityAfterEviction ==
    [][EvictOldestEntries => Len(failedUrls') <= MAX_FAILED_ENTRIES]_vars

\* ---------------------------------------------------------------- C29
\* The causes of a failed fetch: the allow-list, the HTTP status, the
\* network, the body, the message channel.
FailureCauses == {"blocked", "http", "network", "blob", "runtime"}

AnsweredOnce(m) ==
    /\ Len(m.answers) <= 1
    /\ m.stage = "done" => Len(m.answers) = 1

RejectedWithoutFetch(m) ==
    ~isAllowedUrl(m.url)
        => /\ m.fetches = 0
           /\ \A k \in 1..Len(m.answers) : ~m.answers[k].success
           /\ m.stage \in {"sent", "done", "lost"}

FailureIsNull(m) ==
    /\ Len(m.outcome) <= 1
    /\ \A k \in 1..Len(m.outcome) :
          /\ m.outcome[k].settled = "resolved"
          /\ m.cause \in FailureCauses => m.outcome[k].value = NULL

\* C29: the background handler answers every FETCH_IMAGE_BLOB request exactly
\* once; a url that isAllowedUrl rejects is answered with success false and
\* no network fetch; every rejection, HTTP error or runtime error resolves
\* fetchImageViaBackground with null, and its promise is never rejected.
C29_AnsweredOnceFailureIsNull ==
    /\ [](\A i \in 1..Len(messages) :
            /\ AnsweredOnce(messages[i])
            /\ RejectedWithoutFetch(messages[i])
            /\ FailureIsNull(messages[i]))
    /\ \A i \in 1..MaxMessages :
          (Len(messages) >= i)
              ~> /\ Len(messages) >= i
                 /\ Len(messages[i].outcome) = 1
                 /\ messages[i].stage = "lost" \/ Len(messages[i].answers) = 1

\* A rejected url and an HTTP error, both answered and both null.
C29_Witness ==
    /\ Len(messages) = 2
    /\ messages[1].cause = "blocked"
    /\ messages[1].answers = <<[success |-> FALSE, dataUrl |-> NULL]>>
    /\ messages[1].outcome = <<[settled |-> "resolved", value |-> NULL]>>
    /\ messages[2].cause = "http"
    /\ messages[2].fetches = 1
    /\ messages[2].outcome = <<[settled |-> "resolved", value |-> NULL]>>

\* ---------------------------------------------------------------- C30
\* The two maps, the highlight calls and the position of the loop agree.
InMemoryEqual(a, b) ==
    /\ a.p = b.p
    /\ a.g = b.g
    /\ a.marks = b.marks
    /\ a.done = b.done
    /\ a.index = b.index
    /\ a.stage = b.stage

\* C30: a rejection of upsertThumbnailRecord does not affect the in-memory
\* classification: when the upsert of a classification has settled,
\* processedSrcUrls, hashToSrcUrls and the highlight calls are what they are
\* after a successful and after a failed upsert alike, and the loop goes on
\* to the remaining images of the batch.
C30_StoreFailureIsolated ==
    /\ [][(page.stage = "upsert" /\ page' # page)
            => \A ok \in BOOLEAN :
                  InMemoryEqual(page', LoopFrom(AfterUpsert(page, ok)))]_vars
    /\ [](page.stage = "finished" => page.done = page.imgs)

\* Both upserts of a batch of two failed; the second image was classified
\* into the group of the first and highlighted, and the batch is finished.
C30_Witness ==
    /\ page.stage = "finished"
    /\ page.runs = 1
    /\ Len(page.imgs) = 2
    /\ Len(page.p) = 2
    /\ page.store = <<>>
    /\ Len(page.marks) = 1
    /\ page.marks[1].count = 2

\* ---------------------------------------------------------------- C31
\* C31: the next backlog entry is not started before the THROTTLE_MS timer
\* armed at the settlement of the task before it has fired: a task is started
\* after another only when that one has settled and its timer has expired,
\* and a request submitted while the timer is pending is queued, not started.
C31_StartAfterThrottle ==
    /\ [][(started' # started /\ started # <<>>)
            => /\ Len(resolved[started[Len(started)]]) = 1
               /\ active = {}
               /\ \/ timers = 1 /\ timers' = 0
                  \/ timers = 0 /\ ~isProcessing]_vars
    /\ [][(Len(requests') > Len(requests) /\ timers > 0)
            => /\ started' = started
               /\ queue' = Append(queue, [id |-> Len(requests'),
                                          url |-> requests'[Len(requests')]])]_vars
    /\ [](timers > 0 => isProcessing /\ active = {})

\* The second task was started by the timer of the first, and the third
\* request waits while the timer of the second is pending.
C31_Witness ==
    /\ started = <<1, 2>>
    /\ Len(resolved[2]) = 1
    /\ timers = 1
    /\ Len(queue) = 1

\* ---------------------------------------------------------------- C32
\* The number of parallel fetches the content script announces at start.
ParallelFetches == 5

\* C32: when five or more requests have been submitted through queueHash
\* and none has completed, five of them are in flight at the same time.
C32_FiveInFlight ==
    (/\ Len(requests) >= ParallelFetches
     /\ \A id \in 1..Len(requests) : resolved[id] = <<>>)
        => Cardinality(active) = ParallelFetches

\* ---------------------------------------------------------------- C33
\* Three fingerprints in a chain: A and C are both near B and far from each
\* other.
ChainA == <<"0", "f">>

ChainB == <<"0", "1">>

ChainC == <<"f", "0">>

\* Requests a, b and c are the three requests made, for three sources, and
\* got the fingerprints A, B and C; nothing was evicted.  Requests complete in
\* the order of their ids.
Chain(a, b, c) ==
    /\ Len(requests) = 3
    /\ {a, b, c} = 1..3
    /\ Cardinality({requests[a], requests[b], requests[c]}) = 3
    /\ Classified(a) /\ resolved[a][1] = ChainA
    /\ Classified(b) /\ resolved[b][1] = ChainB
    /\ Classified(c) /\ resolved[c][1] = ChainC
    /\ NoEviction

\* C33: the grouping depends on the order: with distance(A,B) and
\* distance(B,C) within the threshold and distance(A,C) beyond it, the three
\* sources end in one group when B is classified first, in {A,B} and {C}
\* when A is first, and in {B,C} and {A} when C is first.
C33_OrderDependent ==
    /\ hammingDistance(ChainA, ChainB) <= HAMMING_THRESHOLD
    /\ hammingDistance(ChainB, ChainC) <= HAMMING_THRESHOLD
    /\ hammingDistance(ChainA, ChainC) > HAMMING_THRESHOLD
    /\ \A a \in 1..3 : \A b \in 1..3 : \A c \in 1..3 :
          Chain(a, b, c) =>
              LET srcA == requests[a]
                  srcB == requests[b]
                  srcC == requests[c]
              IN  /\ (b < a /\ b < c)
                        => SameGroup(srcA, srcB) /\ SameGroup(srcB, srcC)
                  /\ (a < b /\ a < c)
                        => /\ SameGroup(srcA, srcB)
                           /\ ~SameGroup(srcB, srcC)
                           /\ ~SameGroup(srcA, srcC)
                  /\ (c < a /\ c < b)
                        => /\ SameGroup(srcB, srcC)
                           /\ ~SameGroup(srcA, srcB)
                           /\ ~SameGroup(srcA, srcC)

\* B was classified first and A and C joined its group.
C33_Witness ==
    /\ Chain(2, 1, 3)
    /\ Len(hashToSrcUrls) = 1
    /\ hashToSrcUrls[1].srcs = {1, 2, 3}

\* A was classified first: the same fingerprints end in two groups.
C33_OtherOrder ==
    /\ Chain(1, 2, 3)
    /\ Len(hashToSrcUrls) = 2

\* ---------------------------------------------------------------- C34
\* s is q without some of its oldest entries.
IsSuffix(s, q) ==
    /\ Len(s) <= Len(q)
    /\ s = SubSeq(q, Len(q) - Len(s) + 1, Len(q))

\* C34: evictOldestEntries treats the two capacities independently and by
\* insertion order only: what it removes from either collection are its
\* oldest entries; failedUrls within its capacity is left unchanged,
\* whatever is evicted from processedSrcUrls, and processedSrcUrls and
\* hashToSrcUrls within capacity are left unchanged, whatever is evicted
\* from failedUrls; with both within capacity the call changes nothing.
C34_CapacitiesIndependent ==
    [][EvictOldestEntries =>
        /\ IsSuffix(processedSrcUrls', processedSrcUrls)
        /\ IsSuffix(failedUrls', failedUrls)
        /\ Len(failedUrls) <= MAX_FAILED_ENTRIES => failedUrls' = failedUrls
        /\ Len(processedSrcUrls) <= MAX_CACHE_ENTRIES
              => /\ processedSrcUrls' = processedSrcUrls
                 /\ hashToSrcUrls' = hashToSrcUrls
        /\ (Len(processedSrcUrls') < Len(processedSrcUrls))
              = (Len(processedSrcUrls) > MAX_CACHE_ENTRIES)
        /\ (Len(failedUrls') < Len(failedUrls))
              = (Len(failedUrls) > MAX_FAILED_ENTRIES)
        /\ UNCHANGED dispatcher]_vars

\* The latest call found two tracked sources and one failed one: it evicted
\* a tracked source and left the failed one.
C34_Witness ==
    /\ lastEvict = [tracked |-> 2, failed |-> 1]
    /\ Len(processedSrcUrls) = 1
    /\ Len(failedUrls) = 1
    /\ Len(requests) = 3

\* ---------------------------------------------------------------- C35
\* The page addresses of the calls for this key that have resolved.
Upserted(hash) ==
    { thumbs.calls[i].pageUrl :
        i \in { j \in 1..Len(thumbs.calls) :
                  /\ thumbs.calls[j].hash = hash
                  /\ thumbs.calls[j].state = "resolved" } }

C36_TrackedOnlyRehighlights ==
    /\ [][Len(requests') > Len(requests)
            => ~SrcHas(processedSrcUrls, requests'[Len(requests')])]_vars
    /\ [][\A src \in Urls :
            (SrcHas(processedSrcUrls, src) /\ ProcessImage(src))
            => /\ UNCHANGED <<tracker, dispatcher>>
               /\ LET group == { hashToSrcUrls[i].srcs :
                                   i \in { j \in 1..Len(hashToSrcUrls) :
                                     hashToSrcUrls[j].hash =
                                       SrcGet(processedSrcUrls, src) } }
                  IN  IF \E m \in group : Cardinality(m) > 1
                      THEN \E m \in group :
                             result' = <<[src |-> src,
                                          size |-> Cardinality(m)]>>
                      ELSE result' = <<>>]_vars

\* processImage has marked an image whose source is tracked in a group of
\* two, and no request was made for it.
C36_Witness ==
    /\ result # <<>>
    /\ result[1].size = 2
    /\ SrcHas(processedSrcUrls, result[1].src)
    /\ Len(requests) = 2
    /\ Len(processedSrcUrls) = 2

\* ---------------------------------------------------------------- C37
\* C37: no wake-up is lost: whenever the queue is not empty, isProcessing is
\* true, and isProcessing is true only while a task is active or a throttle
\* timer is pending, so something is left to call processQueue again.
C37_NoLostWakeup ==
    /\ queue # <<>> => isProcessing
    /\ isProcessing => (active # {} \/ timers > 0)

\* Two requests wait in the queue while the throttle timer of the first,
\* which has settled, is pending.
C37_Witness ==
    /\ Len(queue) = 2
    /\ isProcessing
    /\ active = {}
    /\ timers = 1

\* ---------------------------------------------------------------- C38
\* C38: the groups partition the tracked keys: every member s of every group
\* hashToSrcUrls[g] is a key of processedSrcUrls with processedSrcUrls[s] = g
\* (so no key is in two groups and no evicted key is in any), and the sizes
\* of the groups add up to processedSrcUrls.size.
C38_GroupsPartitionTracked ==
    /\ \A i \in 1..Len(hashToSrcUrls) :
          \A s \in hashToSrcUrls[i].srcs :
              /\ SrcHas(processedSrcUrls, s)
              /\ SrcGet(processedSrcUrls, s) = hashToSrcUrls[i].hash
    /\ Cardinality(UNION { { <<i, s>> : s \in hashToSrcUrls[i].srcs } :
                             i \in 1..Len(hashToSrcUrls) })
          = Len(processedSrcUrls)

\* ---------------------------------------------------------------- C39
\* Every source was requested at most once, so each key is classified at
\* most once, with one fingerprint.
EachKeyOnce ==
    \A a \in 1..Len(requests) : \A b \in 1..Len(requests) :
        a # b => requests[a] # requests[b]

\* C39: whatever the order of classifications and evictions, when each key
\* is classified once, two tracked sources whose own fingerprints are
\* identical are members of the same group.
C39_SameHashSameGroupAcrossEvictions ==
    EachKeyOnce =>
        \A a \in Urls : \A b \in Urls :
            (/\ a # b
             /\ SrcHas(processedSrcUrls, a)
             /\ SrcHas(processedSrcUrls, b)
             /\ OwnHash(a) = OwnHash(b))
                => /\ SameGroup(a, b)
                   /\ SrcGet(processedSrcUrls, a) = SrcGet(processedSrcUrls, b)

\* The source that founded a group has been evicted; the two that remain
\* have the same fingerprint, which is not the group key, and share the
\* group.
C39_Witness ==
    /\ EachKeyOnce
    /\ evicted.tracked # {}
    /\ \E a \in Urls : \E b \in Urls :
          /\ a # b
          /\ SrcHas(processedSrcUrls, a)
          /\ SrcHas(processedSrcUrls, b)
          /\ OwnHash(a) = OwnHash(b)
          /\ OwnHash(a) # SrcGet(processedSrcUrls, a)
          /\ SameGroup(a, b)

\* ---------------------------------------------------------------- C40
\* The request whose result is the next to be applied: the oldest one that
\* has not been resolved.
NextToApply ==
    IF \E id \in 1..Len(requests) : resolved[id] = <<>>
    THEN CHOOSE id \in 1..Len(requests) :
            /\ resolved[id] = <<>>
            /\ \A i \in 1..(id - 1) : resolved[i] # <<>>
    ELSE Len(requests) + 1

\* C40: completions are applied to the tracker in submission order: a
\* request is resolved only after all those passed to queueHash before it,
\* and every change of the tracker is either an eviction or the result of
\* the oldest unresolved request applied to the maps as they are, so that
\* the maps depend only on the submissions, their outcomes and the eviction
\* points.
C40_AppliedInSubmissionOrder ==
    /\ [](\A i \in 1..Len(requests) : \A j \in 1..Len(requests) :
            (i < j /\ resolved[j] # <<>>) => resolved[i] # <<>>)
    /\ [][resolved' # resolved /\ Len(requests') = Len(requests)
            => /\ NextToApply <= Len(requests)
               /\ resolved'[NextToApply] # <<>>
               /\ \A i \in 1..Len(requests) :
                     i # NextToApply => resolved'[i] = resolved[i]
               /\ \E n \in {ProcessImageThen(processedSrcUrls, hashToSrcUrls,
                                              failedUrls, requests[NextToApply],
                                              resolved'[NextToApply][1])} :
                     /\ processedSrcUrls' = n.p
                     /\ hashToSrcUrls' = n.g
                     /\ failedUrls' = n.f]_vars
    /\ [][tracker' # tracker /\ resolved' = resolved
            => /\ EvictOldestEntries
               /\ requests' = requests]_vars

\* The first two of three requests have had their results applied, the first
\* a failure and the second a fingerprint, while the third is being fetched.
C40_Witness ==
    /\ Len(requests) = 3
    /\ resolved[1] = <<NULL>>
    /\ Classified(2)
    /\ resolved[3] = <<>>
    /\ \E t \in active : t.id = 3
    /\ Members(failedUrls) = {requests[1]}
    /\ SrcHas(processedSrcUrls, requests[2])

====
